---- MODULE Spec2Model ----
(***************************************************************************)
(* A model of the financial chatbot of wealth-guide-voice:                 *)
(*   src/src/lib/financialCalculations.ts      the calculators, the        *)
(*                                             formatter and the number    *)
(*                                             extractor                   *)
(*   src/src/components/chat/FinancialChatbot.tsx  the router              *)
(*                                             (getBeginnerFriendlyResponse)*)
(*                                             and the chat session        *)
(*                                             (handleSendMessage, ...)    *)
(*   src/unnamed/part_000                      the router of the earlier   *)
(*                                             version of the component    *)
(*                                             (getPersonalizedResponse)   *)
(*                                                                         *)
(* A text is a sequence of characters, each a one-character string; a      *)
(* white space character that a string cannot hold is written by its code  *)
(* point ("U+00A0").  The texts are made of ASCII characters and of white  *)
(* space.  A JavaScript value of type number | null | undefined is a       *)
(* record [k, v]: k = "num" with the value v, k = "-0" (negative zero),    *)
(* k = "nan", k = "inf" (+Infinity), k = "-inf" (-Infinity) or k = "null"  *)
(* (null or undefined).  Ages, years, months and the numbers read out of a *)
(* text are whole numbers; an amount of money that a calculator returns is *)
(* counted in cents (1/100), which keeps the factors 0.5, 0.3, 0.2, 0.15,  *)
(* 0.1, 0.02 and 0.8 of the source exact.  Where the code's result depends *)
(* on the rounding of its doubles (Math.ceil of a quotient, a comparison   *)
(* of two equal amounts) the operation is computed in doubles, as the      *)
(* whole numbers of their multiples of 2^-110.  An amount is below 2^31    *)
(* cents.                                                                  *)
(***************************************************************************)
EXTENDS Integers, Sequences, FiniteSets, TLC

VARIABLES
  messages,         \* useState<Message[]>: the history
  inputValue,       \* useState(''): the text of the input box
  isSpeechEnabled,  \* useState(true)
  chatContext,      \* useState<ChatContext>
  pending,          \* the setTimeout(..., 1000) callbacks not yet run, oldest first
  speakTimers,      \* the setTimeout(..., 500) callbacks not yet run, oldest first
  now,              \* Date.now(), the millisecond clock
  ids,              \* the ids of the messages of the history, in its order
  args,             \* the arguments of a call of a pure function (function harness)
  ret               \* its result, NotCalled before the call

vars == <<messages, inputValue, isSpeechEnabled, chatContext, pending,
          speakTimers, now, ids, args, ret>>

sessionVars == <<messages, inputValue, isSpeechEnabled, chatContext, pending,
                 speakTimers, now, ids>>

(***************************************************************************)
(* JavaScript values                                                       *)
(***************************************************************************)
Num(n) == [k |-> "num", v |-> n]
NaN == [k |-> "nan", v |-> 0]
Infinity == [k |-> "inf", v |-> 0]
NegInfinity == [k |-> "-inf", v |-> 0]
NegZero == [k |-> "-0", v |-> 0]
Null == [k |-> "null", v |-> 0]

\* a finite number
IsNum(x) == x.k \in {"num", "-0"}
\* ToBoolean of a number | null | undefined: null, undefined, NaN, 0 and -0 are
\* falsy.
Truthy(x) == x.k \in {"inf", "-inf"} \/ (x.k = "num" /\ x.v # 0)

NotCalled == [k |-> "notcalled", v |-> 0]

(***************************************************************************)
(* Characters and texts                                                    *)
(***************************************************************************)
Digits == {"0", "1", "2", "3", "4", "5", "6", "7", "8", "9"}

DigitChars == <<"0", "1", "2", "3", "4", "5", "6", "7", "8", "9">>

DigitVal(c) == (CHOOSE i \in 1..10 : DigitChars[i] = c) - 1

DigitChar(d) == DigitChars[d + 1]

UpperChars ==
  <<"A", "B", "C", "D", "E", "F", "G", "H", "I", "J", "K", "L", "M",
    "N", "O", "P", "Q", "R", "S", "T", "U", "V", "W", "X", "Y", "Z">>

LowerChars ==
  <<"a", "b", "c", "d", "e", "f", "g", "h", "i", "j", "k", "l", "m",
    "n", "o", "p", "q", "r", "s", "t", "u", "v", "w", "x", "y", "z">>

LowerChar(c) ==
  IF \E i \in 1..26 : UpperChars[i] = c
  THEN LowerChars[CHOOSE i \in 1..26 : UpperChars[i] = c]
  ELSE c

\* String.prototype.toLowerCase
ToLowerCase(s) == [i \in 1..Len(s) |-> LowerChar(s[i])]

\* \s of a regular expression, and the characters trim() removes: the white
\* space and the line terminators of ECMAScript (tab, line feed, vertical tab,
\* form feed, carriage return, space, no-break space, the space separators of
\* Unicode, line separator, paragraph separator, byte order mark)
WhiteSpace ==
  {"\t", "\n", "U+000B", "\f", "\r", " ", "U+00A0", "U+1680", "U+2000",
   "U+2001", "U+2002", "U+2003", "U+2004", "U+2005", "U+2006", "U+2007",
   "U+2008", "U+2009", "U+200A", "U+2028", "U+2029", "U+202F", "U+205F",
   "U+3000", "U+FEFF"}

\* String.prototype.includes
Includes(s, k) ==
  \E i \in 1..(Len(s) - Len(k) + 1) : SubSeq(s, i, i + Len(k) - 1) = k

\* whether k occurs in s at position i
StartsAt(s, i, k) ==
  /\ i >= 1
  /\ i + Len(k) - 1 <= Len(s)
  /\ SubSeq(s, i, i + Len(k) - 1) = k

\* String.prototype.trim leaves the empty string
TrimIsEmpty(s) == \A i \in 1..Len(s) : s[i] \in WhiteSpace

Max(a, b) == IF a >= b THEN a ELSE b

Min(a, b) == IF a <= b THEN a ELSE b

\* the last position of the longest run of characters of class C that starts
\* at position i of s (i - 1 when s[i] is not in C): a greedy C*
RunEnd(s, i, C) ==
  LET stops == {j \in i..Len(s) : s[j] \notin C}
  IN IF stops = {} THEN Max(Len(s), i - 1)
     ELSE (CHOOSE j \in stops : \A m \in stops : j <= m) - 1

Least(S) == CHOOSE x \in S : \A y \in S : x <= y

\* the member of a set of one element; {e(v) : v \in {d}} is the set of the
\* one value e(d), with d evaluated once
TheOne(S) == CHOOSE v \in S : TRUE

\* s without the characters of class C: s.replace(/[C]/g, '')
Strip(s, C) == SelectSeq(s, LAMBDA c : c \notin C)

\* the value of a sequence of decimal digits
RECURSIVE DecimalValue(_)
DecimalValue(ds) ==
  IF ds = <<>> THEN 0
  ELSE 10 * DecimalValue(SubSeq(ds, 1, Len(ds) - 1)) + DigitVal(ds[Len(ds)])

\* parseInt of a text: the whole number its leading digits spell, NaN when it
\* does not start with a digit.  (Every text the source hands to parseInt is
\* made of digits only: a sign or leading white space cannot occur.)  The
\* result is a double: a number of 310 digits or more, leading zeros apart, is
\* at least 1e309, above the largest double, and parseInt gives Infinity.  The
\* numbers of the model have at most 9 digits, or 310 and more.
ParseInt(s) ==
  LET last == RunEnd(s, 1, Digits)
      nonzero == {i \in 1..last : s[i] # "0"}
      significant == IF nonzero = {} THEN 0 ELSE last - Least(nonzero) + 1
  IN IF last = 0 THEN NaN
     ELSE IF significant >= 310 THEN Infinity
     ELSE Num(DecimalValue(SubSeq(s, 1, last)))

(***************************************************************************)
(* financialCalculations.ts: extractNumberFromText                         *)
(***************************************************************************)
DigitOrComma == Digits \cup {","}

\* the positions where /\$?[\d,]+/ matches
NumberMatchStarts(text) ==
  {i \in 1..Len(text) :
     \/ text[i] \in DigitOrComma
     \/ (text[i] = "$" /\ i < Len(text) /\ text[i + 1] \in DigitOrComma)}

\* text.match(/\$?[\d,]+/)[0]: the leftmost match, as long as it can be
NumberMatch(text) ==
  LET i == Least(NumberMatchStarts(text))
      from == IF text[i] = "$" THEN i + 1 ELSE i
  IN SubSeq(text, i, RunEnd(text, from, DigitOrComma))

extractNumberFromText(text) ==
  IF NumberMatchStarts(text) # {}
  THEN ParseInt(Strip(NumberMatch(text), {"$", ","}))
  ELSE Null

(***************************************************************************)
(* Whole numbers of any size, for the doubles and the powers of the        *)
(* calculators: a sequence of digits in base BigBase = 2^10, the least     *)
(* significant first, with no leading zero (0 is the empty sequence).      *)
(***************************************************************************)
BigBase == 32 * 32

\* a whole number 0 <= n < BigBase^4
BigFromNat(n) ==
  LET d == <<n % BigBase, (n \div BigBase) % BigBase,
             (n \div (BigBase * BigBase)) % BigBase,
             n \div (BigBase * BigBase * BigBase)>>
      nz == {k \in 1..4 : d[k] # 0}
  IN SubSeq(d, 1, IF nz = {} THEN 0 ELSE CHOOSE k \in nz : \A m \in nz : m <= k)

\* the sum of a[i] * b[k + 1 - i] for i in lo..hi
RECURSIVE ColumnSum(_, _, _, _, _)
ColumnSum(a, b, k, lo, hi) ==
  IF lo > hi THEN 0
  ELSE IF lo = hi THEN a[lo] * b[k + 1 - lo]
  ELSE LET mid == (lo + hi) \div 2
       IN ColumnSum(a, b, k, lo, mid) + ColumnSum(a, b, k, mid + 1, hi)

\* one round of carries, every column at once
CarryStep(c) ==
  [k \in 1..(Len(c) + 1) |->
     (IF k <= Len(c) THEN c[k] % BigBase ELSE 0)
     + (IF k > 1 THEN c[k - 1] \div BigBase ELSE 0)]

RECURSIVE BigNormalize(_)
BigNormalize(c) ==
  IF \A k \in 1..Len(c) : c[k] < BigBase
  THEN LET nz == {k \in 1..Len(c) : c[k] # 0}
       IN SubSeq(c, 1, IF nz = {} THEN 0 ELSE CHOOSE k \in nz : \A m \in nz : m <= k)
  ELSE TheOne({BigNormalize(carried) : carried \in {CarryStep(c)}})

\* the number of zero digits at the low end of a > 0
LowZeros(a) == Least({k \in 1..Len(a) : a[k] # 0}) - 1

\* a * b for a > 0 and b > 0 without zero digits at the low end
BigMulDigits(a, b) ==
  TheOne({BigNormalize(columns) :
          columns \in {[k \in 1..(Len(a) + Len(b) - 1) |->
                          ColumnSum(a, b, k, Max(1, k + 1 - Len(b)), Min(Len(a), k))]}})

\* a * b
BigMul(a, b) ==
  TheOne({IF p = <<>> \/ q = <<>> THEN <<>>
          ELSE [k \in 1..(LowZeros(p) + LowZeros(q)) |-> 0]
               \o BigMulDigits(SubSeq(p, LowZeros(p) + 1, Len(p)),
                               SubSeq(q, LowZeros(q) + 1, Len(q))) :
          p \in {a}, q \in {b}})

\* a^n
RECURSIVE BigPow(_, _)
BigPow(a, n) ==
  IF n = 0 THEN <<1>>
  ELSE TheOne({IF n % 2 = 0 THEN BigMul(h, h) ELSE BigMul(BigMul(h, h), a) :
               h \in {BigPow(a, n \div 2)}})

\* a >= b
BigGeq(a, b) ==
  \E p \in {a}, q \in {b} :
     \/ Len(p) > Len(q)
     \/ /\ Len(p) = Len(q)
        /\ \/ p = q
           \/ LET d == CHOOSE i \in 1..Len(p) :
                         p[i] # q[i] /\ \A j \in (i + 1)..Len(p) : p[j] = q[j]
              IN p[d] > q[d]

\* a = b
BigEq(a, b) == a = b

\* a + b
BigAdd(a, b) ==
  TheOne({BigNormalize([k \in 1..Max(Len(p), Len(q)) |->
                          (IF k <= Len(p) THEN p[k] ELSE 0)
                          + (IF k <= Len(q) THEN q[k] ELSE 0)]) :
          p \in {a}, q \in {b}})

\* a - b, for a >= b
BigSub(a, b) ==
  TheOne(UNION {{BigNormalize(SubSeq(sum, 1, Len(p))) :
                   sum \in {BigNormalize([k \in 1..Len(p) |->
                                            p[k] + (BigBase - 1)
                                            - (IF k <= Len(q) THEN q[k] ELSE 0)
                                            + (IF k = 1 THEN 1 ELSE 0)])}} :
                p \in {a}, q \in {b}})

\* the number of bits of the whole number m > 0, less one
RECURSIVE NatBits(_)
NatBits(m) == IF m < 2 THEN 0 ELSE 1 + NatBits(m \div 2)

\* 2^k: a digit has 10 bits
BigTwoTo(k) ==
  [i \in 1..((k \div 10) + 1) |-> IF i = (k \div 10) + 1 THEN 2^(k % 10) ELSE 0]

\* the number of bits of a > 0, less one: the j with 2^j <= a < 2^(j+1)
BitLength(a) == 10 * (Len(a) - 1) + NatBits(a[Len(a)])

\* a * 2^s
ShiftLeft(a, s) ==
  TheOne({IF p = <<>> THEN <<>>
          ELSE BigNormalize([i \in 1..(Len(p) + (s \div 10)) |->
                               IF i <= s \div 10 THEN 0
                               ELSE p[i - (s \div 10)] * 2^(s % 10)]) :
          p \in {a}})

\* the whole part of a / 2^s
ShiftRight(a, s) ==
  TheOne({IF Len(p) <= s \div 10 THEN <<>>
          ELSE BigNormalize([i \in 1..(Len(p) - (s \div 10)) |->
                               (p[i + (s \div 10)] \div 2^(s % 10))
                               + (IF i + (s \div 10) < Len(p)
                                  THEN (p[i + (s \div 10) + 1] % 2^(s % 10))
                                       * 2^(10 - (s % 10))
                                  ELSE 0)]) :
          p \in {a}})

\* The long division of a number by m > 0, the bits hi down to lo of the
\* quotient: state is <<rest, quotient>>, the rest of the number and the bits
\* of the quotient above hi, with rest < 2^(hi+1) * m.
RECURSIVE LongDivision(_, _, _, _)
LongDivision(state, m, hi, lo) ==
  IF hi = lo
  THEN TheOne({IF BigGeq(state[1], t)
               THEN <<BigSub(state[1], t), BigAdd(state[2], BigTwoTo(hi))>>
               ELSE state :
               t \in {ShiftLeft(m, hi)}})
  ELSE TheOne({LongDivision(upper, m, (hi + lo) \div 2, lo) :
               upper \in {LongDivision(state, m, hi, ((hi + lo) \div 2) + 1)}})

(***************************************************************************)
(* Doubles.  A finite double v >= 0 that is a multiple of 2^-110 (every    *)
(* double of 2^-58 or more is one) is the whole number v * 2^110.  A sum,  *)
(* a difference, a product or a quotient of two doubles is the exact       *)
(* result rounded to 53 significant bits, ties to even (IEEE 754).         *)
(***************************************************************************)
DoubleUnit == BigTwoTo(110)

\* a rounded to 53 significant bits, ties to even
RoundToDouble(a) ==
  TheOne({IF p = <<>> \/ BitLength(p) <= 52 THEN p
          ELSE TheOne(UNION {
                 {ShiftLeft(IF (IF twice = middle THEN q[1] % 2 = 1
                                ELSE BigGeq(twice, middle))
                            THEN BigAdd(q, <<1>>) ELSE q,
                            BitLength(p) - 52) :
                    middle \in {ShiftLeft(BigAdd(BigAdd(q, q), <<1>>),
                                          BitLength(p) - 52)}} :
                 q \in {ShiftRight(p, BitLength(p) - 52)}, twice \in {BigAdd(p, p)}}) :
          p \in {a}})

\* the j with 2^j * d <= n < 2^(j+1) * d, for n > 0 and d > 0
RatioBitLength(n, d) ==
  LET e == BitLength(n) - BitLength(d)
  IN IF IF e >= 0 THEN BigGeq(n, ShiftLeft(d, e)) ELSE BigGeq(ShiftLeft(n, -e), d)
     THEN e ELSE e - 1

\* n / d rounded to 53 significant bits, ties to even, for the whole numbers
\* n > 0 and d > 0, where s is the number of bits of the whole part of n / d
\* above 53: the division gives <<rest, q>> with n = q * 2^s * d + rest (for
\* s < 0, n * 2^-s = q * d + rest), and q is rounded up when the rest is more
\* than half of the divisor, or half of it and q is odd.
RoundRatioDigits(n, d, s) ==
  TheOne(UNION {UNION {
    {IF s >= 0 THEN ShiftLeft(rounded, s) ELSE ShiftRight(rounded, -s) :
       rounded \in {IF (IF BigAdd(division[1], division[1]) = m
                        THEN division[2][1] % 2 = 1
                        ELSE BigGeq(BigAdd(division[1], division[1]), m))
                    THEN BigAdd(division[2], <<1>>) ELSE division[2]}} :
    division \in {LongDivision(<<IF s < 0 THEN ShiftLeft(n, -s) ELSE n, <<>>>>,
                               m, 52, 0)}} :
    m \in {IF s > 0 THEN ShiftLeft(d, s) ELSE d}})

\* n / d rounded to 53 significant bits, ties to even, for the whole numbers
\* n >= 0 and d > 0 with a quotient of 2^52 or more (a double of 2^-58 or
\* more, for n / d counted in 2^-110); the digits that are zero at the low
\* end of both are left out of the division
RoundRatioToDouble(n, d) ==
  TheOne({IF p = <<>> THEN <<>>
          ELSE TheOne({RoundRatioDigits(pp, qq, RatioBitLength(pp, qq) - 52) :
                       pp \in {SubSeq(p, Min(LowZeros(p), LowZeros(q)) + 1, Len(p))},
                       qq \in {SubSeq(q, Min(LowZeros(p), LowZeros(q)) + 1, Len(q))}}) :
          p \in {n}, q \in {d}})

\* the double of the literal c / 100, for a whole number c >= 0: 0.18 is
\* DoubleOfHundredths(18)
DoubleOfHundredths(c) ==
  RoundRatioToDouble(ShiftLeft(BigFromNat(c), 110), BigFromNat(100))

\* the double of an amount of c cents (the literal c / 100)
DoubleFromCents(c) == DoubleOfHundredths(c)

\* the whole number n as a double
DoubleFromNat(n) == ShiftLeft(BigFromNat(n), 110)

\* x * y in doubles
DoubleProduct(x, y) ==
  TheOne({ShiftRight(RoundToDouble(product), 110) : product \in {BigMul(x, y)}})

\* x / y in doubles, for y > 0
DoubleQuotient(x, y) ==
  TheOne({RoundRatioToDouble(p, q) : p \in {ShiftLeft(x, 110)}, q \in {y}})

\* the doubles of the literals 0.5, 0.3, 0.2, 0.1 and 0.8
DoubleHalf == DoubleOfHundredths(50)

DoubleThreeTenths == DoubleOfHundredths(30)

DoubleTwoTenths == DoubleOfHundredths(20)

DoubleOneTenth == DoubleOfHundredths(10)

DoubleEightTenths == DoubleOfHundredths(80)

\* n * c in doubles, for a whole number n < 2^53 and the double c
DoubleTimes(n, c) == DoubleProduct(DoubleFromNat(n), c)

\* x + y in doubles
DoublePlus(x, y) == TheOne({RoundToDouble(sum) : sum \in {BigAdd(x, y)}})

\* x * 0.1 in doubles
DoubleTimesOneTenth(x) == DoubleProduct(x, DoubleOneTenth)

\* x * 0.8 in doubles
DoubleTimesEightTenths(x) == DoubleProduct(x, DoubleEightTenths)

\* x - y in doubles, for x >= y
DoubleMinus(x, y) == TheOne({RoundToDouble(difference) : difference \in {BigSub(x, y)}})

\* Whether the double x / y is at most the whole number m, 0 < m < 2^52, for
\* doubles x > 0 and y > 0: the quotient is the exact quotient rounded to 53
\* significant bits, which is at most m exactly when the exact quotient is at
\* most halfway between m and the next double above m, m + 2^(NatBits(m) - 53)
\* (the tie goes to m, whose mantissa is even).
QuotientAtMost(m, x, y) ==
  BigGeq(BigMul(y, BigAdd(ShiftLeft(BigFromNat(m), 53), BigTwoTo(NatBits(m)))),
         ShiftLeft(x, 53))

\* an m with QuotientAtMost, found by doubling
RECURSIVE QuotientUpperBound(_, _, _)
QuotientUpperBound(m, x, y) ==
  IF QuotientAtMost(m, x, y) THEN m ELSE QuotientUpperBound(2 * m, x, y)

\* the least m in lo..hi with QuotientAtMost, which holds at hi, by bisection
RECURSIVE QuotientSearch(_, _, _, _)
QuotientSearch(lo, hi, x, y) ==
  IF lo = hi THEN lo
  ELSE IF QuotientAtMost((lo + hi) \div 2, x, y)
  THEN QuotientSearch(lo, (lo + hi) \div 2, x, y)
  ELSE QuotientSearch(((lo + hi) \div 2) + 1, hi, x, y)

\* Math.ceil(x / y) for doubles x > 0 and y > 0
DoubleCeilQuotient(x, y) ==
  TheOne(UNION {{QuotientSearch((ub \div 2) + 1, ub, p, q) :
                   ub \in {QuotientUpperBound(1, p, q)}} :
                p \in {x}, q \in {y}})

(***************************************************************************)
(* financialCalculations.ts: the calculators                               *)
(***************************************************************************)
\* calculateBudget(income): income in whole dollars; needs, wants and savings
\* in cents (income * 0.5 is income * 50 cents).
calculateBudget(income) ==
  [totalIncome |-> income,
   needs |-> income * 50,
   wants |-> income * 30,
   savings |-> income * 20,
   needsPercentage |-> 50,
   wantsPercentage |-> 30,
   savingsPercentage |-> 20]

\* a variant of calculateBudget with the factors of wants and savings exchanged
calculateBudgetDoubleExchanged(income) ==
  [totalIncome |-> DoubleFromNat(income),
   needs |-> DoubleTimes(income, DoubleHalf),
   wants |-> DoubleTimes(income, DoubleTwoTenths),
   savings |-> DoubleTimes(income, DoubleThreeTenths),
   needsPercentage |-> 50,
   wantsPercentage |-> 30,
   savingsPercentage |-> 20]

\* calculateBudget(income) in doubles, for a whole number of dollars: the
\* amounts are the doubles income * 0.5, income * 0.3 and income * 0.2.  The amounts of calculateBudget above are these to the cent.
calculateBudgetDouble(income) ==
  [totalIncome |-> DoubleFromNat(income),
   needs |-> DoubleTimes(income, DoubleHalf),
   wants |-> DoubleTimes(income, DoubleThreeTenths),
   savings |-> DoubleTimes(income, DoubleTwoTenths),
   needsPercentage |-> 50,
   wantsPercentage |-> 30,
   savingsPercentage |-> 20]

\* calculateRetirementPlan(currentAge, retirementAge, currentSavings,
\* monthlyIncome, contributionRate = 0.15): ages in years, monthlyIncome in
\* whole dollars, contributionRate in hundredths, monthlyContribution in cents.
calculateRetirementPlan(currentAge, retirementAge, currentSavings, monthlyIncome, contributionRate) ==
  [yearsToRetirement |-> retirementAge - currentAge,
   monthlyContribution |-> monthlyIncome * contributionRate]

DefaultContributionRate == 15

\* const annualReturn = 0.07, in hundredths
AnnualReturn == 7

\* the future value of the savings when they are not compounded: a variant of
\* currentSavings * Math.pow(1 + annualReturn, yearsToRetirement)
futureValueCurrentFlat(currentSavings, yearsToRetirement) ==
  [num |-> BigFromNat(currentSavings), den |-> <<1>>]

\* futureValueCurrent = currentSavings * Math.pow(1 + annualReturn,
\* yearsToRetirement), for yearsToRetirement >= 0: the fraction
\* currentSavings * 107^years / 100^years
futureValueCurrent(currentSavings, yearsToRetirement) ==
  [num |-> BigMul(BigFromNat(currentSavings),
                  BigPow(BigFromNat(100 + AnnualReturn), yearsToRetirement)),
   den |-> BigPow(BigFromNat(100), yearsToRetirement)]

\* futureValueContributions = monthlyContribution *
\* ((Math.pow(1 + monthlyReturn, yearsToRetirement * 12) - 1) / monthlyReturn)
\* with monthlyReturn = annualReturn / 12 = 7 / 1200 and n = 12 * years:
\* monthlyContribution * (1207^n - 1200^n) * 1200 / (7 * 1200^n)
futureValueContributions(monthlyContribution, yearsToRetirement) ==
  LET n == yearsToRetirement * 12
      grown == BigPow(BigFromNat(1200 + AnnualReturn), n)
      base == BigPow(BigFromNat(1200), n)
  IN [num |-> BigMul(BigMul(BigFromNat(monthlyContribution), BigSub(grown, base)),
                     BigFromNat(1200)),
      den |-> BigMul(BigFromNat(AnnualReturn), base)]

\* the sum of two fractions
RatPlus(a, b) ==
  [num |-> BigAdd(BigMul(a.num, b.den), BigMul(b.num, a.den)),
   den |-> BigMul(a.den, b.den)]

\* Lines 61-72 of calculateRetirementPlan in exact arithmetic, for
\* yearsToRetirement >= 0: projectedRetirementFund and
\* monthlyIncomeAtRetirement = projectedRetirementFund * 0.04 / 12 as
\* fractions of cents.  (The doubles of the code are these to a relative error
\* of some 1e-13.)
retirementProjection(currentSavings, monthlyContribution, yearsToRetirement) ==
  LET projectedRetirementFund ==
        RatPlus(futureValueCurrent(currentSavings, yearsToRetirement),
                futureValueContributions(monthlyContribution, yearsToRetirement))
  IN [projectedRetirementFund |-> projectedRetirementFund,
      monthlyIncomeAtRetirement |->
        [num |-> BigMul(projectedRetirementFund.num, <<4>>),
         den |-> BigMul(projectedRetirementFund.den, BigFromNat(1200))]]

\* Math.ceil(a / b) for a > 0, b > 0
CeilDiv(a, b) == (a + b - 1) \div b

\* calculateEmergencyFund in doubles, for the doubles monthlyExpenses,
\* currentSavings and monthlyIncome and a whole number targetMonths: every operation of lines 88-91 is the exact operation rounded
\* to a double.  remainingAmount / availableForSavings with
\* availableForSavings = 0 is +Infinity.
emergencyFundOfDoubles(monthlyExpenses, currentSavings, monthlyIncome, targetMonths) ==
  LET targetAmount == DoubleProduct(monthlyExpenses, DoubleFromNat(targetMonths))
      remainingAmount ==
        IF BigGeq(currentSavings, targetAmount) THEN <<>>
        ELSE DoubleMinus(targetAmount, currentSavings)
      availableForSavings == DoubleTimesOneTenth(monthlyIncome)
      monthsToGoal ==
        IF remainingAmount # <<>>
        THEN IF availableForSavings = <<>> THEN Infinity
             ELSE Num(DoubleCeilQuotient(remainingAmount, availableForSavings))
        ELSE Num(0)
  IN [targetAmount |-> targetAmount,
      currentAmount |-> currentSavings,
      monthsToGoal |-> monthsToGoal,
      monthlySavingsNeeded |-> availableForSavings]

\* calculateEmergencyFund(monthlyExpenses, currentSavings, monthlyIncome,
\* targetMonths) for amounts written in cents (1233.1 is 123310): the arguments
\* are the doubles of the literals.
calculateEmergencyFundDouble(monthlyExpenses, currentSavings, monthlyIncome, targetMonths) ==
  emergencyFundOfDoubles(DoubleFromCents(monthlyExpenses), DoubleFromCents(currentSavings),
                         DoubleFromCents(monthlyIncome), targetMonths)

\* calculateEmergencyFund(monthlyExpenses, currentSavings, monthlyIncome,
\* targetMonths = 6) for arguments written as literals: monthlyExpenses and
\* currentSavings in cents, monthlyIncome in whole dollars.  The amounts
\* returned are in cents (monthlyIncome * 0.1
\* is monthlyIncome * 10 cents); monthsToGoal is the Math.ceil of the quotient
\* of the doubles: calculateEmergencyFund(1.6, 0, 2, 3) is 25 months, as
\* 4.800000000000001 / 0.2 is above 24.
calculateEmergencyFund(monthlyExpenses, currentSavings, monthlyIncome, targetMonths) ==
  LET targetAmount == monthlyExpenses * targetMonths
      availableForSavings == monthlyIncome * 10
      inDoubles ==
        emergencyFundOfDoubles(DoubleFromCents(monthlyExpenses),
                               DoubleFromCents(currentSavings),
                               DoubleFromNat(monthlyIncome), targetMonths)
  IN [targetAmount |-> targetAmount,
      currentAmount |-> currentSavings,
      monthsToGoal |-> inDoubles.monthsToGoal,
      monthlySavingsNeeded |-> availableForSavings]

DefaultTargetMonths == 6

\* the double 12
DoubleTwelve == DoubleFromNat(12)

\* balance * interestRate / 12 of line 106, in doubles
MonthlyInterest(balance, interestRate) ==
  DoubleQuotient(DoubleProduct(DoubleOfHundredths(balance),
                               DoubleOfHundredths(interestRate)),
                 DoubleTwelve)

\* the payment is the interest of a month in exact arithmetic
PaymentIsInterest(balance, interestRate, monthlyPayment) ==
  1200 * monthlyPayment = balance * interestRate

\* monthlyPayment <= (balance * interestRate / 12), the test of line 106.  When
\* the two sides differ in exact arithmetic they differ by 1 / 120000 or more,
\* far more than the rounding of the doubles (amounts are below 2^31 cents),
\* and the doubles compare as the exact numbers do.  When the two sides are
\* equal in exact arithmetic the doubles decide: 30 * 0.18 / 12 is
\* 0.44999999999999996, below the payment 0.45.
NeverPaysOff(balance, interestRate, monthlyPayment) ==
  IF PaymentIsInterest(balance, interestRate, monthlyPayment)
  THEN \E interest \in {MonthlyInterest(balance, interestRate)},
          payment \in {DoubleOfHundredths(monthlyPayment)} :
          BigGeq(interest, payment)
  ELSE 1200 * monthlyPayment < balance * interestRate

\* monthlyRate = interestRate / 12 of line 110, in doubles
DebtMonthlyRate(interestRate) ==
  DoubleQuotient(DoubleOfHundredths(interestRate), DoubleTwelve)

\* (balance * monthlyRate) / monthlyPayment of line 112, in doubles
InterestShare(balance, interestRate, monthlyPayment) ==
  DoubleQuotient(DoubleProduct(DoubleOfHundredths(balance),
                               DebtMonthlyRate(interestRate)),
                 DoubleOfHundredths(monthlyPayment))

\* 1 - share of line 112, in doubles, for a share below 1.  Where the payment
\* is just above the interest of a month the share is next to 1 and its
\* rounding error, some 1e-16, is a large part of the difference: for
\* (506720.89, 0.32, 13512.56) the difference is 2.2e-7 and the quotient of the
\* logarithms is 583.0000000017, where exact arithmetic gives a little less
\* than 583.
DebtLeft(share) == DoubleMinus(DoubleUnit, share)

\* 1 + monthlyRate of line 112, in doubles
DebtGrowth(interestRate) == DoublePlus(DoubleUnit, DebtMonthlyRate(interestRate))

\* Numbers with 70 binary places, for the powers of 1 + monthlyRate: the
\* number v is the whole number v * 2^70.
FixedOne == BigTwoTo(70)

\* a * b cut after 70 binary places (up = FALSE), or that plus 2^-70
FixedTimes(a, b, up) ==
  TheOne({IF up THEN BigAdd(ShiftRight(product, 70), <<1>>)
          ELSE ShiftRight(product, 70) :
          product \in {BigMul(a, b)}})

\* the double x with 70 binary places, for a multiple of 2^-70 as
\* 1 + monthlyRate is
FixedOfDouble(x) == ShiftRight(x, 40)

\* 10^15
TenToFifteen == BigPow(<<10>>, 15)

\* Whether n is at least the quotient -Math.log(left) / Math.log(growth), for
\* the double 0 < left < 1, the number growth > 1 and its power growth^n (with
\* 70 binary places): growth^n * left >= 1.  The code rounds the two
\* logarithms and their quotient, which moves the quotient by less than 1e-15
\* of itself, and so growth^n * left by less than 2 * n * (growth - 1) * 1e-15:
\* with sure = TRUE the test holds whatever the rounding was, with
\* sure = FALSE it holds for some rounding.
QuotientReached(n, power, left, growth, sure) ==
  \E grown \in {BigMul(BigMul(power, left), TenToFifteen)},
     one \in {BigMul(FixedOne, TenToFifteen)},
     slack \in {BigMul(BigFromNat(2 * n), BigSub(growth, FixedOne))} :
     BigGeq(grown, ShiftLeft(IF sure THEN BigAdd(one, slack) ELSE BigSub(one, slack),
                             110))

\* the powers growth^(2^k) for k = 0, 1, ... up to the first with
\* QuotientReached: a bound from below (sure = TRUE) or from above
RECURSIVE PowersToReach(_, _, _, _)
PowersToReach(powers, left, growth, sure) ==
  IF QuotientReached(2^(Len(powers) - 1), powers[Len(powers)], left, growth, sure)
  THEN powers
  ELSE TheOne({PowersToReach(longer, left, growth, sure) :
               longer \in {Append(powers,
                                  FixedTimes(powers[Len(powers)],
                                             powers[Len(powers)], ~sure))}})

\* the largest n + j with j < 2^k and without QuotientReached, for
\* state = <<n, growth^n>> without QuotientReached: the bits of j, the highest
\* first
RECURSIVE QuotientDescent(_, _, _, _, _, _)
QuotientDescent(k, state, powers, left, growth, sure) ==
  IF k = 0 THEN state[1]
  ELSE TheOne(UNION {
         {QuotientDescent(k - 1, next, powers, left, growth, sure) :
            next \in {IF QuotientReached(state[1] + 2^(k - 1), power, left, growth, sure)
                      THEN state
                      ELSE <<state[1] + 2^(k - 1), power>>}} :
         power \in {FixedTimes(state[2], powers[k], ~sure)}})

\* Math.ceil(-Math.log(left) / Math.log(growth)) for the doubles 0 < left < 1
\* and growth > 1: the least whole number the quotient does not exceed, for
\* the rounding that gives the smallest quotient (sure = FALSE) and for the
\* one that gives the largest (sure = TRUE)
CeilLogQuotient(left, growth, sure) ==
  TheOne(UNION {{QuotientDescent(Len(powers) - 1, <<0, FixedOne>>, powers, l,
                                 fixed, sure) + 1 :
                   powers \in {PowersToReach(<<fixed>>, l, fixed, sure)}} :
                l \in {left}, fixed \in {FixedOfDouble(growth)}})

\* What the rounding of Math.log and of the division of line 112 can add to
\* the result of Math.ceil.  The operands of Math.log are the doubles of the
\* code; ECMAScript leaves the last bits of Math.log to the implementation.
\* Math.ceil hides them unless the quotient of the two logarithms is a whole
\* number n > 0 to within 1e-15 of itself: there the double is n or a little
\* below n (Math.ceil gives n), or a little above n (Math.ceil gives n + 1).
\* calculateDebtPayoff(1000, 0.12, 1010) is 1 month: the quotient is the
\* double 1.
RoundingExcess(balance, interestRate, monthlyPayment) ==
  IF \/ NeverPaysOff(balance, interestRate, monthlyPayment)
     \/ interestRate = 0
     \/ balance = 0
  THEN {0}
  ELSE TheOne({IF BigGeq(share, DoubleUnit) THEN {0}
               ELSE TheOne({IF CeilLogQuotient(left, growth, TRUE)
                                 = CeilLogQuotient(left, growth, FALSE)
                            THEN {0} ELSE {0, 1} :
                            left \in {DebtLeft(share)}}) :
               share \in {InterestShare(balance, interestRate, monthlyPayment)},
               growth \in {DebtGrowth(interestRate)}})

\* calculateDebtPayoff(balance, interestRate, monthlyPayment): balance and
\* monthlyPayment in cents, interestRate in hundredths (0.18 is 18), for
\* balance >= 0, interestRate >= 0 and monthlyPayment >= 0; excess is the
\* effect of the rounding of Math.log on Math.ceil, a member of RoundingExcess.
\*   With monthlyRate = 0 the quotient is -Math.log(1) / Math.log(1) = -0 / 0,
\*   which is NaN, and so are the three results.
\*   With balance = 0 the quotient is -Math.log(1) / Math.log(1 + monthlyRate)
\*   = -0, Math.ceil(-0) is -0, and so are -0 * monthlyPayment and -0 - 0.
\*   Otherwise the share balance * monthlyRate / monthlyPayment is a double.
\*   Above 1 (the payment is the interest of a month and the test of line 106
\*   fails), Math.log of a negative number is NaN; at 1, -Math.log(0) is
\*   Infinity; below 1 the months are Math.ceil(-Math.log(1 - share) /
\*   Math.log(1 + monthlyRate)), the least whole n with
\*   (1 + monthlyRate)^n * (1 - share) >= 1 for the doubles 1 - share and
\*   1 + monthlyRate: calculateDebtPayoff(1000, 0.18, 1015) is 2 months, as
\*   1.015 * (1 - 0.9852216748768474) is below 1 in the doubles.
calculateDebtPayoffCeil(balance, interestRate, monthlyPayment, excess) ==
  LET never == [monthsToPayoff |-> Infinity, totalInterest |-> Infinity,
                totalPaid |-> Infinity]
      notANumber == [monthsToPayoff |-> NaN, totalInterest |-> NaN, totalPaid |-> NaN]
      after(months) ==
        [monthsToPayoff |-> Num(months),
         totalInterest |-> Num(months * monthlyPayment - balance),
         totalPaid |-> Num(months * monthlyPayment)]
  IN IF NeverPaysOff(balance, interestRate, monthlyPayment) THEN never
     ELSE IF interestRate = 0 THEN notANumber
     ELSE IF balance = 0
     THEN [monthsToPayoff |-> NegZero, totalInterest |-> NegZero,
           totalPaid |-> NegZero]
     ELSE TheOne({IF share = DoubleUnit THEN never
                  ELSE IF BigGeq(share, DoubleUnit) THEN notANumber
                  ELSE TheOne({after(least + excess) :
                               least \in {CeilLogQuotient(DebtLeft(share),
                                                          DebtGrowth(interestRate),
                                                          FALSE)}}) :
                  share \in {InterestShare(balance, interestRate, monthlyPayment)}})

\* calculateDebtPayoff for arguments whose quotient is not next to a whole
\* number, as those of the debt branch of the router: with the rate 0.18 and
\* the payments 0.02 and 0.04 of the balance the quotient is
\* log(4) / log(1.015) or log(1.6) / log(1.015).
calculateDebtPayoff(balance, interestRate, monthlyPayment) ==
  calculateDebtPayoffCeil(balance, interestRate, monthlyPayment, 0)

(***************************************************************************)
(* financialCalculations.ts: formatCurrency                                *)
(***************************************************************************)
\* the decimal digits of a whole number n >= 0
RECURSIVE DigitsOf(_)
DigitsOf(n) ==
  IF n < 10 THEN <<DigitChar(n)>>
  ELSE DigitsOf(n \div 10) \o <<DigitChar(n % 10)>>

\* digits with a comma before every group of three, as en-US groups them
RECURSIVE Grouped(_)
Grouped(ds) ==
  IF Len(ds) <= 3 THEN ds
  ELSE Grouped(SubSeq(ds, 1, Len(ds) - 3)) \o <<",">>
         \o SubSeq(ds, Len(ds) - 2, Len(ds))

\* cents rounded to whole dollars, a half away from zero
RoundToDollars(cents) ==
  IF cents >= 0 THEN (cents + 50) \div 100 ELSE -((-cents + 50) \div 100)

\* formatCurrency(amount) for an amount in cents or -0 or NaN or an infinity:
\* USD, en-US, no fraction digits.  The one-element text <<"INF">> stands for
\* the infinity sign.  A negative amount keeps its sign when it rounds to zero
\* ("-$0"), and so does -0.
formatCurrency(amount) ==
  IF amount.k = "nan" THEN <<"$", "N", "a", "N">>
  ELSE IF amount.k = "inf" THEN <<"$", "INF">>
  ELSE IF amount.k = "-inf" THEN <<"-", "$", "INF">>
  ELSE IF amount.k = "-0" THEN <<"-", "$", "0">>
  ELSE LET d == RoundToDollars(amount.v)
       IN IF amount.v < 0 THEN <<"-", "$">> \o Grouped(DigitsOf(-d))
          ELSE <<"$">> \o Grouped(DigitsOf(d))

(***************************************************************************)
(* FinancialChatbot.tsx: the chat context and the router                   *)
(***************************************************************************)
\* UserFinancialData with no field set
EmptyUserData ==
  [income |-> Null, expenses |-> Null, age |-> Null, retirementAge |-> Null,
   currentSavings |-> Null, debt |-> Null, riskTolerance |-> Null,
   goals |-> Null]

\* the initial ChatContext
InitialChatContext ==
  [userData |-> EmptyUserData, conversationState |-> "greeting", lastTopic |-> <<>>]

IncomeKeywords ==
  <<<<"i", "n", "c", "o", "m", "e">>,
    <<"s", "a", "l", "a", "r", "y">>,
    <<"m", "a", "k", "e">>,
    <<"e", "a", "r", "n">>>>

GreetingKeywords ==
  <<<<"h", "e", "l", "l", "o">>,
    <<"h", "i">>,
    <<"h", "e", "l", "p">>>>

BudgetKeywords ==
  <<<<"b", "u", "d", "g", "e", "t">>,
    <<"s", "p", "e", "n", "d", "i", "n", "g">>,
    <<"m", "o", "n", "e", "y">>>>

RetirementKeywords ==
  <<<<"r", "e", "t", "i", "r", "e">>,
    <<"p", "e", "n", "s", "i", "o", "n">>,
    <<"4", "0", "1", "k">>>>

DebtKeywords ==
  <<<<"d", "e", "b", "t">>,
    <<"l", "o", "a", "n">>,
    <<"c", "r", "e", "d", "i", "t">>>>

InvestmentKeywords ==
  <<<<"i", "n", "v", "e", "s", "t">>,
    <<"s", "t", "o", "c", "k">>,
    <<"p", "o", "r", "t", "f", "o", "l", "i", "o">>>>

StartKeywords ==
  <<<<"s", "t", "a", "r", "t">>,
    <<"b", "e", "g", "i", "n">>,
    <<"n", "e", "w">>,
    <<"f", "i", "r", "s", "t">>>>

KwEmergency == <<"e", "m", "e", "r", "g", "e", "n", "c", "y">>

KwSavings == <<"s", "a", "v", "i", "n", "g", "s">>

KwRetirement == <<"r", "e", "t", "i", "r", "e", "m", "e", "n", "t">>

\* message.includes(k1) || message.includes(k2) || ...
IncludesAny(message, keywords) ==
  \E n \in 1..Len(keywords) : Includes(message, keywords[n])

\* whether /(\d+)\s*years?\s*old/i matches at position i of the lower-case
\* text m: digits, white space, "year", an optional "s", white space, "old"
YearsOldAt(m, i) ==
  /\ m[i] \in Digits
  /\ LET y == RunEnd(m, RunEnd(m, i, Digits) + 1, WhiteSpace) + 1
         o == IF StartsAt(m, y + 4, <<"s">>) THEN y + 5 ELSE y + 4
     IN /\ StartsAt(m, y, <<"y", "e", "a", "r">>)
        /\ StartsAt(m, RunEnd(m, o, WhiteSpace) + 1, <<"o", "l", "d">>)

\* whether /prefix\s*(\d+)/i matches at position i of m
PrefixNumberAt(m, i, prefix) ==
  /\ StartsAt(m, i, prefix)
  /\ LET d == RunEnd(m, i + Len(prefix), WhiteSpace) + 1
     IN d <= Len(m) /\ m[d] \in Digits

\* the digits that (\d+) captures after the prefix matched at position i
PrefixNumber(m, i, prefix) ==
  LET d == RunEnd(m, i + Len(prefix), WhiteSpace) + 1
  IN SubSeq(m, d, RunEnd(m, d, Digits))

KwAge == <<"a", "g", "e">>

KwIm == <<"i", "'", "m">>

\* the positions where /(\d+)\s*years?\s*old|age\s*(\d+)|i'm\s*(\d+)/i matches
AgeMatchStarts(m) ==
  {i \in 1..Len(m) :
     YearsOldAt(m, i) \/ PrefixNumberAt(m, i, KwAge) \/ PrefixNumberAt(m, i, KwIm)}

\* userMessage.match(...) and parseInt(ageMatch[1] || ageMatch[2] || ageMatch[3]):
\* the number captured by the leftmost match, Null when nothing matches
ExtractAge(userMessage) ==
  LET m == ToLowerCase(userMessage)
      starts == AgeMatchStarts(m)
      i == Least(starts)
  IN IF starts = {} THEN Null
     ELSE IF YearsOldAt(m, i) THEN ParseInt(SubSeq(m, i, RunEnd(m, i, Digits)))
     ELSE IF PrefixNumberAt(m, i, KwAge) THEN ParseInt(PrefixNumber(m, i, KwAge))
     ELSE ParseInt(PrefixNumber(m, i, KwIm))

\* a variant of the first setChatContext that stores the income and leaves
\* conversationState as it is
IncomeUpdateKeepingState(prev, userMessage) ==
  LET message == ToLowerCase(userMessage)
      income == extractNumberFromText(userMessage)
  IN IF Truthy(income) /\ IncludesAny(message, IncomeKeywords)
     THEN [prev EXCEPT !.userData.income = income]
     ELSE prev

\* the first setChatContext of the router: the income, when the number found in
\* the message is truthy and the message has an income keyword
IncomeUpdate(prev, userMessage) ==
  LET message == ToLowerCase(userMessage)
      income == extractNumberFromText(userMessage)
  IN IF Truthy(income) /\ IncludesAny(message, IncomeKeywords)
     THEN [prev EXCEPT !.userData.income = income,
                       !.conversationState = "gathering_info"]
     ELSE prev

\* a variant of the second setChatContext that keeps the age as the retirement
\* age too
AgeUpdateWithRetirementAge(prev, userMessage) ==
  LET age == ExtractAge(userMessage)
  IN IF age # Null
     THEN [prev EXCEPT !.userData.age = age, !.userData.retirementAge = age]
     ELSE prev

\* the second setChatContext: the age, whenever the age pattern matches
AgeUpdate(prev, userMessage) ==
  LET age == ExtractAge(userMessage)
  IN IF age # Null THEN [prev EXCEPT !.userData.age = age] ELSE prev

\* the rule of the cascade that answers the message
IsGreeting(message) == IncludesAny(message, GreetingKeywords)

IsBudget(message) == IncludesAny(message, BudgetKeywords)

IsRetirement(message) == IncludesAny(message, RetirementKeywords)

IsEmergency(message) ==
  \/ Includes(message, KwEmergency)
  \/ (Includes(message, KwSavings) /\ ~Includes(message, KwRetirement))

IsDebt(message) == IncludesAny(message, DebtKeywords)

IsInvestment(message) == IncludesAny(message, InvestmentKeywords)

\* a variant of the start rule that every message matches, which leaves the
\* generic fallback without a message to answer
IsStartAlways(message) == TRUE

IsStart(message) == IncludesAny(message, StartKeywords)

Branch(userMessage) ==
  LET message == ToLowerCase(userMessage)
  IN IF IsGreeting(message) THEN "greeting"
     ELSE IF IsBudget(message) THEN "budget"
     ELSE IF IsRetirement(message) THEN "retirement"
     ELSE IF IsEmergency(message) THEN "emergency"
     ELSE IF IsDebt(message) THEN "debt"
     ELSE IF IsInvestment(message) THEN "investment"
     ELSE IF IsStart(message) THEN "start"
     ELSE "fallback"

\* the setChatContext of a topic branch: budget and retirement record lastTopic
\* when the context the closure reads (chatContext) lacks the facts
TopicUpdate(prev, userMessage, ctx) ==
  LET branch == Branch(userMessage)
  IN IF branch = "budget" /\ ~Truthy(ctx.userData.income)
     THEN [prev EXCEPT !.lastTopic = <<"b", "u", "d", "g", "e", "t">>]
     ELSE IF branch = "retirement"
             /\ ~(Truthy(ctx.userData.income) /\ Truthy(ctx.userData.age))
     THEN [prev EXCEPT !.lastTopic = KwRetirement]
     ELSE prev

\* The state the router's setChatContext calls leave: the updaters run in the
\* order of the calls on the latest state prev, while the conditions of the
\* topic branches read ctx, the chatContext of the render that made the closure.
\* a variant of the updates in which the greeting branch returns before the
\* income and the age are extracted
ContextAfterGreetingFirst(prev, userMessage, ctx) ==
  IF IsGreeting(ToLowerCase(userMessage)) THEN prev
  ELSE TopicUpdate(AgeUpdate(IncomeUpdate(prev, userMessage), userMessage),
                   userMessage, ctx)

ContextAfter(prev, userMessage, ctx) ==
  TopicUpdate(AgeUpdate(IncomeUpdate(prev, userMessage), userMessage),
              userMessage, ctx)

\* a whole number as `${n}` prints it
NumberText(n) == IF n < 0 THEN <<"-">> \o DigitsOf(-n) ELSE DigitsOf(n)

\* `${x}` for a number x: a whole number, -0 (which prints as 0), NaN or an
\* infinity
JsText(x) ==
  IF x.k = "nan" THEN <<"N", "a", "N">>
  ELSE IF x.k = "inf" THEN <<"I", "n", "f", "i", "n", "i", "t", "y">>
  ELSE IF x.k = "-inf" THEN <<"-", "I", "n", "f", "i", "n", "i", "t", "y">>
  ELSE NumberText(x.v)

\* `${Math.round(months / 12)}` for a number of months: Math.round keeps NaN
\* and the infinities, and rounds a half up
YearsText(months) ==
  IF IsNum(months) THEN NumberText((months.v + 6) \div 12) ELSE JsText(months)

\* `${months}` for a number of months
MonthsText(months) == JsText(months)

\* x - y of JavaScript, for numbers
JsMinus(x, y) ==
  IF x.k = "nan" \/ y.k = "nan" THEN NaN
  ELSE IF x.k = "inf" THEN (IF y.k = "inf" THEN NaN ELSE Infinity)
  ELSE IF x.k = "-inf" THEN (IF y.k = "-inf" THEN NaN ELSE NegInfinity)
  ELSE IF y.k = "inf" THEN NegInfinity
  ELSE IF y.k = "-inf" THEN Infinity
  ELSE IF x.k = "-0" /\ y.k = "num" /\ y.v = 0 THEN NegZero
  ELSE Num(x.v - y.v)

\* x * c of JavaScript for a number x and a positive constant c; the constant
\* is given as the whole number that the product of the model is counted in
\* (income * 0.15 in cents is JsTimes(income, 15))
JsTimes(x, c) == IF x.k = "num" THEN Num(x.v * c) ELSE x

DefaultInterestRate == 18

DefaultRetirementAge == 65

DefaultAge == 30

MaxStockAllocation == 90

\* a reply: the branch of the cascade that made it, whether it is the follow-up
\* question of the branch (asks) or its answer, and the figures that the
\* template embeds, in the order of the template
Reply(branch, asks, figures) ==
  [branch |-> branch, asks |-> asks, figures |-> figures]

\* calculateBudget(income) for the income of the context, a whole number or
\* Infinity (Infinity * 0.5 is Infinity); the amounts are numbers of cents
BudgetOf(income) ==
  IF income.k = "num"
  THEN LET budget == calculateBudget(income.v)
       IN [needs |-> Num(budget.needs), wants |-> Num(budget.wants),
           savings |-> Num(budget.savings)]
  ELSE [needs |-> JsTimes(income, 50), wants |-> JsTimes(income, 30),
        savings |-> JsTimes(income, 20)]

BudgetReply(ctx) ==
  IF Truthy(ctx.userData.income)
  THEN LET budget == BudgetOf(ctx.userData.income)
       IN Reply("budget", FALSE,
                <<formatCurrency(JsTimes(ctx.userData.income, 100)),
                  formatCurrency(budget.needs),
                  formatCurrency(budget.wants),
                  formatCurrency(budget.savings)>>)
  ELSE Reply("budget", TRUE, <<>>)

\* calculateRetirementPlan(age, 65, currentSavings || 0, income) for the age
\* and the income of the context, each a whole number or Infinity:
\* yearsToRetirement (65 - Infinity is -Infinity) and monthlyContribution in
\* cents (Infinity * 0.15 is Infinity)
RetirementPlanFor(ctx) ==
  LET age == ctx.userData.age
      income == ctx.userData.income
  IN IF age.k = "num" /\ income.k = "num"
     THEN LET retirementPlan ==
                calculateRetirementPlan(age.v, DefaultRetirementAge,
                                        IF Truthy(ctx.userData.currentSavings)
                                        THEN ctx.userData.currentSavings.v ELSE 0,
                                        income.v, DefaultContributionRate)
          IN [yearsToRetirement |-> Num(retirementPlan.yearsToRetirement),
              monthlyContribution |-> Num(retirementPlan.monthlyContribution)]
     ELSE [yearsToRetirement |-> JsMinus(Num(DefaultRetirementAge), age),
           monthlyContribution |-> JsTimes(income, DefaultContributionRate)]

\* The figures of the retirement answer that rest on Math.pow (the projected
\* fund and the monthly income at retirement) are not among the figures here.
RetirementReply(ctx) ==
  IF Truthy(ctx.userData.income) /\ Truthy(ctx.userData.age)
  THEN LET retirementPlan == RetirementPlanFor(ctx)
       IN Reply("retirement", FALSE,
                <<JsText(retirementPlan.yearsToRetirement),
                  formatCurrency(retirementPlan.monthlyContribution)>>)
  ELSE Reply("retirement", TRUE, <<>>)

\* emergencyPlan.monthsToGoal of the emergency branch, where the income is a
\* whole number of dollars: the expenses are the double income * 0.8 unless
\* the context holds expenses, and Math.ceil is taken of a quotient of doubles.
EmergencyMonthsToGoal(ctx) ==
  emergencyFundOfDoubles(
    IF Truthy(ctx.userData.expenses) THEN DoubleFromCents(ctx.userData.expenses.v)
    ELSE DoubleTimesEightTenths(DoubleFromNat(ctx.userData.income.v)),
    IF Truthy(ctx.userData.currentSavings)
    THEN DoubleFromCents(ctx.userData.currentSavings.v) ELSE <<>>,
    DoubleFromNat(ctx.userData.income.v), DefaultTargetMonths).monthsToGoal

\* The emergencyPlan of the emergency branch for a truthy income, a whole
\* number or Infinity: calculateEmergencyFund(expenses || income * 0.8,
\* currentSavings || 0, income).  The amounts are numbers of cents
\* (monthlyExpenses * targetMonths, monthlyIncome * 0.1); monthsToGoal is that
\* of the doubles, where the expenses income * 0.8 are a double.  With the income
\* Infinity availableForSavings is Infinity; the expenses are Infinity * 0.8
\* unless the context holds expenses, targetAmount and remainingAmount are
\* Infinity and Math.ceil(Infinity / Infinity) is NaN; with expenses in the
\* context Math.ceil(remainingAmount / Infinity) is 0.
EmergencyPlanFor(ctx) ==
  LET income == ctx.userData.income
      currentSavings ==
        IF Truthy(ctx.userData.currentSavings) THEN ctx.userData.currentSavings.v
        ELSE 0
  IN IF income.k = "num"
     THEN LET monthlyExpenses ==
                IF Truthy(ctx.userData.expenses) THEN ctx.userData.expenses.v
                ELSE income.v * 80
          IN [targetAmount |-> Num(monthlyExpenses * DefaultTargetMonths),
              currentAmount |-> Num(currentSavings),
              monthsToGoal |-> EmergencyMonthsToGoal(ctx),
              monthlySavingsNeeded |-> Num(income.v * 10)]
     ELSE [targetAmount |->
             IF Truthy(ctx.userData.expenses)
             THEN Num(ctx.userData.expenses.v * DefaultTargetMonths)
             ELSE JsTimes(income, 80 * DefaultTargetMonths),
           currentAmount |-> Num(currentSavings),
           monthsToGoal |-> IF Truthy(ctx.userData.expenses) THEN Num(0) ELSE NaN,
           monthlySavingsNeeded |-> JsTimes(income, 10)]

EmergencyReply(ctx) ==
  IF Truthy(ctx.userData.income)
  THEN TheOne({Reply("emergency", FALSE,
                     <<formatCurrency(emergencyPlan.targetAmount),
                       formatCurrency(emergencyPlan.monthlySavingsNeeded),
                       MonthsText(emergencyPlan.monthsToGoal)>>) :
               emergencyPlan \in {EmergencyPlanFor(ctx)}})
  ELSE Reply("emergency", TRUE, <<>>)

\* minimumPayment = debtAmount * 0.02 is debtAmount * 2 cents
MinimumPayment(debtAmount) == debtAmount * 2

\* a variant of the aggressive payment: three times the minimum payment
AggressivePaymentTriple(minimumPayment) == minimumPayment * 3

\* aggressivePayment = minimumPayment * 2
AggressivePayment(minimumPayment) == minimumPayment * 2

\* The two scenarios of the debt branch for a truthy debtAmount, in cents.
\* For the debtAmount Infinity the payments are Infinity (Infinity * 0.02) and
\* calculateDebtPayoff returns its first result, as Infinity <= Infinity.
DebtScenarios(debtAmount) ==
  IF debtAmount.k = "inf"
  THEN LET never == [monthsToPayoff |-> Infinity, totalInterest |-> Infinity,
                     totalPaid |-> Infinity]
       IN [minimumPayment |-> Infinity, aggressivePayment |-> Infinity,
           minPayoff |-> never, aggressivePayoff |-> never]
  ELSE LET interestRate == DefaultInterestRate
           minimumPayment == MinimumPayment(debtAmount.v)
           aggressivePayment == AggressivePayment(minimumPayment)
       IN [minimumPayment |-> Num(minimumPayment),
           aggressivePayment |-> Num(aggressivePayment),
           minPayoff |->
             calculateDebtPayoff(debtAmount.v * 100, interestRate, minimumPayment),
           aggressivePayoff |->
             calculateDebtPayoff(debtAmount.v * 100, interestRate,
                                 aggressivePayment)]

DebtReply(userMessage) ==
  LET debtAmount == extractNumberFromText(userMessage)
  IN IF Truthy(debtAmount)
     THEN TheOne({Reply("debt", FALSE,
                        <<formatCurrency(JsTimes(debtAmount, 100)),
                          formatCurrency(scenarios.minimumPayment),
                          YearsText(scenarios.minPayoff.monthsToPayoff),
                          formatCurrency(scenarios.minPayoff.totalInterest),
                          formatCurrency(scenarios.aggressivePayment),
                          YearsText(scenarios.aggressivePayoff.monthsToPayoff),
                          formatCurrency(scenarios.aggressivePayoff.totalInterest),
                          formatCurrency(JsMinus(scenarios.minPayoff.totalInterest,
                                                 scenarios.aggressivePayoff.totalInterest))>>) :
                  scenarios \in {DebtScenarios(debtAmount)}})
     ELSE Reply("debt", TRUE, <<>>)

\* Math.min(x, y) for numbers that are not NaN
JsMin(x, y) ==
  IF x.k = "-inf" \/ y.k = "-inf" THEN NegInfinity
  ELSE IF x.k = "inf" THEN y
  ELSE IF y.k = "inf" THEN x
  ELSE IF x.v <= y.v THEN x ELSE y

\* age is chatContext.userData.age || 30, a whole number or Infinity
InvestmentReply(ctx) ==
  LET age == IF Truthy(ctx.userData.age) THEN ctx.userData.age ELSE Num(DefaultAge)
      stockAllocation == JsMin(Num(MaxStockAllocation), JsMinus(Num(100), age))
      bondAllocation == JsMinus(Num(100), stockAllocation)
  IN Reply("investment", FALSE,
           <<JsText(stockAllocation), JsText(bondAllocation)>>)

\* a variant of the router that tests the budget rule before the greeting rule
getBeginnerFriendlyResponseBudgetFirst(userMessage, ctx) ==
  LET message == ToLowerCase(userMessage)
  IN IF IsBudget(message) THEN BudgetReply(ctx)
     ELSE IF IsGreeting(message) THEN Reply("greeting", FALSE, <<>>)
     ELSE IF IsRetirement(message) THEN RetirementReply(ctx)
     ELSE IF IsEmergency(message) THEN EmergencyReply(ctx)
     ELSE IF IsDebt(message) THEN DebtReply(userMessage)
     ELSE IF IsInvestment(message) THEN InvestmentReply(ctx)
     ELSE IF IsStart(message) THEN Reply("start", FALSE, <<>>)
     ELSE Reply("fallback", FALSE, <<>>)

\* getBeginnerFriendlyResponse(userMessage): the string it returns.  chatContext
\* is the value of the closure, which no setChatContext of this call changes.
getBeginnerFriendlyResponse(userMessage, ctx) ==
  LET message == ToLowerCase(userMessage)
  IN IF IsGreeting(message) THEN Reply("greeting", FALSE, <<>>)
     ELSE IF IsBudget(message) THEN BudgetReply(ctx)
     ELSE IF IsRetirement(message) THEN RetirementReply(ctx)
     ELSE IF IsEmergency(message) THEN EmergencyReply(ctx)
     ELSE IF IsDebt(message) THEN DebtReply(userMessage)
     ELSE IF IsInvestment(message) THEN InvestmentReply(ctx)
     ELSE IF IsStart(message) THEN Reply("start", FALSE, <<>>)
     ELSE Reply("fallback", FALSE, <<>>)

(***************************************************************************)
(* The router of the earlier version of the component (getPersonalized-    *)
(* Response): the same extraction of income and age, then the rules budget,*)
(* retirement, emergency, debt, investment, greeting and fallback.         *)
(***************************************************************************)
EarlierBudgetKeywords ==
  <<<<"b", "u", "d", "g", "e", "t">>,
    <<"s", "p", "e", "n", "d", "i", "n", "g">>>>

IsEarlierBudget(message) == IncludesAny(message, EarlierBudgetKeywords)

EarlierBranch(userMessage) ==
  LET message == ToLowerCase(userMessage)
  IN IF IsEarlierBudget(message) THEN "budget"
     ELSE IF IsRetirement(message) THEN "retirement"
     ELSE IF IsEmergency(message) THEN "emergency"
     ELSE IF IsDebt(message) THEN "debt"
     ELSE IF IsInvestment(message) THEN "investment"
     ELSE IF IsGreeting(message) THEN "greeting"
     ELSE "fallback"

EarlierRetirementReply(ctx) ==
  IF Truthy(ctx.userData.income) /\ Truthy(ctx.userData.age)
  THEN LET retirementPlan == RetirementPlanFor(ctx)
       IN Reply("retirement", FALSE,
                <<JsText(ctx.userData.age),
                  formatCurrency(JsTimes(ctx.userData.income, 100)),
                  JsText(retirementPlan.yearsToRetirement),
                  formatCurrency(retirementPlan.monthlyContribution)>>)
  ELSE Reply("retirement", TRUE, <<>>)

EarlierEmergencyReply(ctx) ==
  IF Truthy(ctx.userData.income)
  THEN TheOne({Reply("emergency", FALSE,
                     <<formatCurrency(emergencyPlan.targetAmount),
                       formatCurrency(emergencyPlan.currentAmount),
                       formatCurrency(emergencyPlan.monthlySavingsNeeded),
                       MonthsText(emergencyPlan.monthsToGoal)>>) :
               emergencyPlan \in {EmergencyPlanFor(ctx)}})
  ELSE Reply("emergency", TRUE, <<>>)

\* `${minPayoff.monthsToPayoff}`
PayoffMonthsText(months) == JsText(months)

EarlierDebtReply(userMessage) ==
  LET debtAmount == extractNumberFromText(userMessage)
  IN IF Truthy(debtAmount)
     THEN TheOne({Reply("debt", FALSE,
                        <<formatCurrency(JsTimes(debtAmount, 100)),
                          formatCurrency(scenarios.minimumPayment),
                          PayoffMonthsText(scenarios.minPayoff.monthsToPayoff),
                          formatCurrency(scenarios.minPayoff.totalInterest),
                          formatCurrency(scenarios.aggressivePayment),
                          PayoffMonthsText(scenarios.aggressivePayoff.monthsToPayoff),
                          formatCurrency(scenarios.aggressivePayoff.totalInterest),
                          formatCurrency(JsMinus(scenarios.minPayoff.totalInterest,
                                                 scenarios.aggressivePayoff.totalInterest))>>) :
                  scenarios \in {DebtScenarios(debtAmount)}})
     ELSE Reply("debt", TRUE, <<>>)

\* stockAllocation = 100 - age, bondAllocation = age
EarlierInvestmentReply(ctx) ==
  LET age == IF Truthy(ctx.userData.age) THEN ctx.userData.age ELSE Num(DefaultAge)
  IN Reply("investment", FALSE, <<JsText(JsMinus(Num(100), age)), JsText(age)>>)

getPersonalizedResponse(userMessage, ctx) ==
  LET message == ToLowerCase(userMessage)
  IN IF IsEarlierBudget(message) THEN BudgetReply(ctx)
     ELSE IF IsRetirement(message) THEN EarlierRetirementReply(ctx)
     ELSE IF IsEmergency(message) THEN EarlierEmergencyReply(ctx)
     ELSE IF IsDebt(message) THEN EarlierDebtReply(userMessage)
     ELSE IF IsInvestment(message) THEN EarlierInvestmentReply(ctx)
     ELSE IF IsGreeting(message) THEN Reply("greeting", FALSE, <<>>)
     ELSE Reply("fallback", FALSE, <<>>)

\* the setChatContext of lastTopic in the earlier router
EarlierTopicUpdate(prev, userMessage, ctx) ==
  LET branch == EarlierBranch(userMessage)
  IN IF branch = "budget" /\ ~Truthy(ctx.userData.income)
     THEN [prev EXCEPT !.lastTopic = <<"b", "u", "d", "g", "e", "t">>]
     ELSE IF branch = "retirement"
             /\ ~(Truthy(ctx.userData.income) /\ Truthy(ctx.userData.age))
     THEN [prev EXCEPT !.lastTopic = KwRetirement]
     ELSE prev

EarlierContextAfter(prev, userMessage, ctx) ==
  EarlierTopicUpdate(AgeUpdate(IncomeUpdate(prev, userMessage), userMessage),
                     userMessage, ctx)

(***************************************************************************)
(* The texts of the model.  A state names a text by its place in Texts; 0  *)
(* names the empty text.                                                   *)
(***************************************************************************)
\* the retirement scenario of the specification (the example of an earlier router's follow-up question): "I'm 30 years old and make $6000 per month, help me plan for retirement"
TextRetirementPlan ==
  <<"I", "'", "m", " ", "3", "0", " ", "y", "e", "a", "r", "s", " ", "o",
    "l", "d", " ", "a", "n", "d", " ", "m", "a", "k", "e", " ", "$", "6",
    "0", "0", "0", " ", "p", "e", "r", " ", "m", "o", "n", "t", "h", ",",
    " ", "h", "e", "l", "p", " ", "m", "e", " ", "p", "l", "a", "n", " ",
    "f", "o", "r", " ", "r", "e", "t", "i", "r", "e", "m", "e", "n", "t">>

\* the budget scenario: "Help me create a budget"
TextCreateBudget ==
  <<"H", "e", "l", "p", " ", "m", "e", " ", "c", "r", "e", "a", "t", "e",
    " ", "a", " ", "b", "u", "d", "g", "e", "t">>

\* the budget scenario, the income: "I make $5000 per month"
TextIncome ==
  <<"I", " ", "m", "a", "k", "e", " ", "$", "5", "0", "0", "0", " ", "p",
    "e", "r", " ", "m", "o", "n", "t", "h">>

\* the budget scenario, the request: "help me budget"
TextHelpBudget ==
  <<"h", "e", "l", "p", " ", "m", "e", " ", "b", "u", "d", "g", "e", "t">>

\* a budget request without a greeting keyword: "create a budget"
TextBudget ==
  <<"c", "r", "e", "a", "t", "e", " ", "a", " ", "b", "u", "d", "g", "e",
    "t">>

\* a retirement request without a greeting keyword: "plan for retirement"
TextRetire ==
  <<"p", "l", "a", "n", " ", "f", "o", "r", " ", "r", "e", "t", "i", "r",
    "e", "m", "e", "n", "t">>

\* the quick action Simple Budget: "I'm new to budgeting and make $4000 per month"
TextQuickBudget ==
  <<"I", "'", "m", " ", "n", "e", "w", " ", "t", "o", " ", "b", "u", "d",
    "g", "e", "t", "i", "n", "g", " ", "a", "n", "d", " ", "m", "a", "k",
    "e", " ", "$", "4", "0", "0", "0", " ", "p", "e", "r", " ", "m", "o",
    "n", "t", "h">>

\* the quick action Retirement Start: "I'm 25 and want to start saving for retirement"
TextQuickRetirement ==
  <<"I", "'", "m", " ", "2", "5", " ", "a", "n", "d", " ", "w", "a", "n",
    "t", " ", "t", "o", " ", "s", "t", "a", "r", "t", " ", "s", "a", "v",
    "i", "n", "g", " ", "f", "o", "r", " ", "r", "e", "t", "i", "r", "e",
    "m", "e", "n", "t">>

\* the quick action Emergency Fund: "Help me start building an emergency fund"
TextQuickEmergency ==
  <<"H", "e", "l", "p", " ", "m", "e", " ", "s", "t", "a", "r", "t", " ",
    "b", "u", "i", "l", "d", "i", "n", "g", " ", "a", "n", " ", "e", "m",
    "e", "r", "g", "e", "n", "c", "y", " ", "f", "u", "n", "d">>

\* white space only: a space and a form feed
TextBlank ==
  <<" ", "\f">>

\* the debt scenario: "I have $5000 in credit card debt"
TextDebt ==
  <<"I", " ", "h", "a", "v", "e", " ", "$", "5", "0", "0", "0", " ", "i",
    "n", " ", "c", "r", "e", "d", "i", "t", " ", "c", "a", "r", "d", " ",
    "d", "e", "b", "t">>

\* a debt request with another amount: "I owe $1,200 on a loan"
TextLoan ==
  <<"I", " ", "o", "w", "e", " ", "$", "1", ",", "2", "0", "0", " ", "o", "n", " ", "a", " ",
    "l", "o", "a", "n">>

\* a debt request without an amount: "pay off debt"
TextDebtNoAmount ==
  <<"p", "a", "y", " ", "o", "f", "f", " ", "d", "e", "b", "t">>

\* an emergency fund request: "Build emergency savings"
TextEmergency ==
  <<"B", "u", "i", "l", "d", " ", "e", "m", "e", "r", "g", "e", "n", "c",
    "y", " ", "s", "a", "v", "i", "n", "g", "s">>

\* an investment request (with a start keyword): "Start investing"
TextInvest ==
  <<"S", "t", "a", "r", "t", " ", "i", "n", "v", "e", "s", "t", "i", "n",
    "g">>

\* a start request: "where do I begin"
TextStart ==
  <<"w", "h", "e", "r", "e", " ", "d", "o", " ", "I", " ", "b", "e", "g",
    "i", "n">>

\* no keyword of any rule: "what about 42"
TextFallback ==
  <<"w", "h", "a", "t", " ", "a", "b", "o", "u", "t", " ", "4", "2">>

\* a comma before the amount: "Well, I make $5000"
TextCommaIncome ==
  <<"W", "e", "l", "l", ",", " ", "I", " ", "m", "a", "k", "e", " ", "$",
    "5", "0", "0", "0">>

\* keywords of the retirement, emergency and debt rules: "savings for retirement or a loan"
TextSavingsRetirement ==
  <<"s", "a", "v", "i", "n", "g", "s", " ", "f", "o", "r", " ", "r", "e",
    "t", "i", "r", "e", "m", "e", "n", "t", " ", "o", "r", " ", "a", " ",
    "l", "o", "a", "n">>

\* an age before an income, no topic: "age 70 and I earn 4,500"
TextAgeIncome ==
  <<"a", "g", "e", " ", "7", "0", " ", "a", "n", "d", " ", "I", " ", "e",
    "a", "r", "n", " ", "4", ",", "5", "0", "0">>

\* a zero income and a zero age: "my salary is 0 and my age 0"
TextZeroSalary ==
  <<"m", "y", " ", "s", "a", "l", "a", "r", "y", " ", "i", "s", " ", "0",
    " ", "a", "n", "d", " ", "m", "y", " ", "a", "g", "e", " ", "0">>

\* keywords of the debt, investment and start rules: "a loan for new stock"
TextStockLoan ==
  <<"a", " ", "l", "o", "a", "n", " ", "f", "o", "r", " ", "n", "e", "w",
    " ", "s", "t", "o", "c", "k">>

\* keywords of the budget and retirement rules: "Money for my pension"
TextMoneyPension ==
  <<"M", "o", "n", "e", "y", " ", "f", "o", "r", " ", "m", "y", " ", "p", "e", "n", "s", "i", "o", "n">>

\* keywords of the emergency and debt rules: "an emergency loan"
TextEmergencyLoan ==
  <<"a", "n", " ", "e", "m", "e", "r", "g", "e", "n", "c", "y", " ", "l", "o", "a", "n">>

\* keywords of the investment and start rules: "my first portfolio"
TextFirstPortfolio ==
  <<"m", "y", " ", "f", "i", "r", "s", "t", " ", "p", "o", "r", "t", "f", "o", "l", "i", "o">>

\* keywords of the budget and debt rules: "Spending on credit"
TextSpendingCredit ==
  <<"S", "p", "e", "n", "d", "i", "n", "g", " ", "o", "n", " ", "c", "r", "e", "d", "i", "t">>

\* every keyword that a rule of the cascade tests
AllKeywords ==
  GreetingKeywords \o BudgetKeywords \o RetirementKeywords
    \o <<KwEmergency, KwSavings, KwRetirement>>
    \o DebtKeywords \o InvestmentKeywords \o StartKeywords

\* the messages made of two keywords with a space between them, in both orders
KeywordPairs ==
  LET K == Len(AllKeywords)
  IN [n \in 1..(K * K) |->
        AllKeywords[((n - 1) \div K) + 1] \o <<" ">> \o AllKeywords[((n - 1) % K) + 1]]

\* the messages written out above
\* a message that states an income of 310 digits
TextHugeIncome ==
  <<"i", "n", "c", "o", "m", "e", " ", "1">> \o [i \in 1..309 |-> "0"]

\* a message for the start branch that states an income
TextStartIncome ==
  <<"I", " ", "a", "m", " ", "n", "e", "w", " ", "a", "n", "d", " ", "I", " ", "e", "a", "r", "n", " ", "3", "0", "0", "0">>

\* an age after white space that is not a space: "25" form feed "years old"
TextFormFeedAge ==
  <<"2", "5", "\f", "y", "e", "a", "r", "s", " ", "o", "l", "d">>

ScenarioTexts ==
  <<TextRetirementPlan,
    TextCreateBudget,
    TextIncome,
    TextHelpBudget,
    TextBudget,
    TextRetire,
    TextQuickBudget,
    TextQuickRetirement,
    TextQuickEmergency,
    TextBlank,
    TextDebt,
    TextLoan,
    TextDebtNoAmount,
    TextEmergency,
    TextInvest,
    TextStart,
    TextFallback,
    TextCommaIncome,
    TextSavingsRetirement,
    TextAgeIncome,
    TextZeroSalary,
    TextStockLoan,
    TextMoneyPension,
    TextEmergencyLoan,
    TextFirstPortfolio,
    TextSpendingCredit,
    TextStartIncome,
    TextHugeIncome,
    TextFormFeedAge>>

Texts == ScenarioTexts \o KeywordPairs

Text(i) == IF i = 0 THEN <<>> ELSE Texts[i]

TextId(t) == CHOOSE i \in 1..Len(Texts) : Texts[i] = t


(***************************************************************************)
(* FinancialChatbot.tsx: the chat session                                  *)
(***************************************************************************)
\* the most messages a user submits in a session of the model
MaxSubmits == 2

\* the texts typed into the input box or dictated
TypedTexts ==
  {TextId(TextIncome), TextId(TextHelpBudget), TextId(TextBudget), TextId(TextBlank)}

\* the texts of the three quick action buttons
QuickActionTexts ==
  {TextId(TextQuickBudget), TextId(TextQuickRetirement), TextId(TextQuickEmergency)}

NoReply == Reply("", FALSE, <<>>)

\* the first message of the history: FINANCIAL_RESPONSES.greeting
InitialMessage ==
  [isUser |-> FALSE, text |-> 0, reply |-> Reply("welcome", FALSE, <<>>)]

UserMessages(history) == SelectSeq(history, LAMBDA m : m.isUser)

BotMessages(history) == SelectSeq(history, LAMBDA m : ~m.isUser)

\* the id of the first message of the history: '1'
GreetingId == <<"1">>

\* the clock when the page is loaded, in milliseconds
LoadTime == 1000000

\* the delay of the typing timer, in milliseconds
TypingDelay == 1000

\* Date.now().toString() and (Date.now() + 1).toString()
IdOf(time) == DigitsOf(time)

InitSession ==
  /\ messages = <<InitialMessage>>
  /\ inputValue = 0
  /\ isSpeechEnabled = TRUE
  /\ chatContext = InitialChatContext
  /\ pending = <<>>
  /\ speakTimers = <<>>
  /\ now = LoadTime
  /\ ids = <<GreetingId>>

\* the harness variables outside a function harness
NoCall ==
  /\ args = NotCalled
  /\ ret = NotCalled

Init ==
  /\ InitSession
  /\ NoCall

\* onChange of the input box: setInputValue(e.target.value)
OnChange(t) ==
  /\ inputValue' = t
  /\ UNCHANGED <<messages, isSpeechEnabled, chatContext, pending, speakTimers,
                 now, ids, args, ret>>

\* onClick of a quick action button: setInputValue("...")
QuickAction(t) ==
  /\ inputValue' = t
  /\ UNCHANGED <<messages, isSpeechEnabled, chatContext, pending, speakTimers,
                 now, ids, args, ret>>

\* the transcript effect: if (transcript) setInputValue(transcript)
TranscriptArrives(t) ==
  /\ Text(t) # <<>>
  /\ inputValue' = t
  /\ UNCHANGED <<messages, isSpeechEnabled, chatContext, pending, speakTimers,
                 now, ids, args, ret>>

\* a variant of handleSendMessage that puts the user message before the
\* history: setMessages(prev => [userMessage, ...prev])
HandleSendMessagePrepending ==
  /\ ~TrimIsEmpty(Text(inputValue))
  /\ Len(UserMessages(messages)) < MaxSubmits
  /\ messages' = <<[isUser |-> TRUE, text |-> inputValue, reply |-> NoReply]>>
                 \o messages
  /\ ids' = <<IdOf(now)>> \o ids
  /\ inputValue' = 0
  /\ pending' = Append(pending,
                       [userInput |-> inputValue,
                        chatContext |-> chatContext,
                        isSpeechEnabled |-> isSpeechEnabled,
                        due |-> now + TypingDelay])
  /\ UNCHANGED <<isSpeechEnabled, chatContext, speakTimers, now, args, ret>>

\* handleSendMessage: the user message joins the history, the input box is
\* cleared, and the reply is left to a timer.  The callback of the timer closes
\* over userInput and over the chatContext and isSpeechEnabled of this render.
HandleSendMessage ==
  /\ ~TrimIsEmpty(Text(inputValue))
  /\ Len(UserMessages(messages)) < MaxSubmits
  /\ messages' = Append(messages,
                        [isUser |-> TRUE, text |-> inputValue, reply |-> NoReply])
  /\ ids' = Append(ids, IdOf(now))
  /\ inputValue' = 0
  /\ pending' = Append(pending,
                       [userInput |-> inputValue,
                        chatContext |-> chatContext,
                        isSpeechEnabled |-> isSpeechEnabled,
                        due |-> now + TypingDelay])
  /\ UNCHANGED <<isSpeechEnabled, chatContext, speakTimers, now, args, ret>>

\* useTextToSpeech().isSupported
textToSpeechSupported == TRUE

\* const botResponse = getBeginnerFriendlyResponse(userInput), in the callback
\* of the timer
BotResponse(timer) ==
  getBeginnerFriendlyResponse(Text(timer.userInput), timer.chatContext)

\* The rest of the callback, for the timer that runs: the router's updates of
\* the context apply to the latest context, the bot message joins the history,
\* and the reply is spoken half a second later if speech was enabled.  The
\* reply handed to speak is botResponse, the reply of the message appended.
TimerCallback(timer) ==
  /\ chatContext' =
       ContextAfter(chatContext, Text(timer.userInput), timer.chatContext)
  /\ messages' = Append(messages,
                        [isUser |-> FALSE, text |-> 0, reply |-> BotResponse(timer)])
  /\ ids' = Append(ids, IdOf(now + 1))
  /\ speakTimers' =
       IF timer.isSpeechEnabled /\ textToSpeechSupported
       THEN Append(speakTimers, messages'[Len(messages')].reply)
       ELSE speakTimers

\* a variant of the timer callback in which the newest timer runs first
TypingDelayElapsedNewestFirst ==
  /\ pending # <<>>
  /\ TimerCallback(pending[Len(pending)])
  /\ pending' = SubSeq(pending, 1, Len(pending) - 1)
  /\ UNCHANGED <<inputValue, isSpeechEnabled, now, args, ret>>

\* the callback of setTimeout(..., 1000) in handleSendMessage; the timers have
\* one delay, so they run in the order they were set
TypingDelayElapsed ==
  /\ pending # <<>>
  /\ TimerCallback(Head(pending))
  /\ pending' = Tail(pending)
  /\ UNCHANGED <<inputValue, isSpeechEnabled, now, args, ret>>

\* the callback of setTimeout(..., 500): speak(botResponse), which hands the
\* oldest reply waiting in speakTimers to the speech synthesis
SpeakDelayElapsed ==
  /\ speakTimers # <<>>
  /\ speakTimers' = Tail(speakTimers)
  /\ UNCHANGED <<messages, inputValue, isSpeechEnabled, chatContext, pending,
                 now, ids, args, ret>>

\* handleVoiceToggle
HandleVoiceToggle ==
  /\ isSpeechEnabled' = ~isSpeechEnabled
  /\ UNCHANGED <<messages, inputValue, chatContext, pending, speakTimers,
                 now, ids, args, ret>>

Next ==
  \/ \E t \in TypedTexts \cup {0} : OnChange(t)
  \/ \E t \in QuickActionTexts : QuickAction(t)
  \/ \E t \in TypedTexts : TranscriptArrives(t)
  \/ HandleSendMessage
  \/ TypingDelayElapsed
  \/ SpeakDelayElapsed
  \/ HandleVoiceToggle

Spec == Init /\ [][Next]_vars

\* the oldest typing timer runs: the steps of TypingDelayElapsed
TimerRuns == pending # <<>> /\ pending' = Tail(pending)

\* The session with its timers: a typing timer that was set runs after its
\* delay (setTimeout of line 388).
SpecLive == Spec /\ WF_pending(TimerRuns)

\* Spec and SpecLive leave the clock where it is: they are the session in the
\* order of its events, and their properties read no id.  SpecClock is the
\* session in time: the clock advances between the events, and a typing timer
\* runs when its delay has passed.

\* the instants after the load of the page to which the clock advances
Instants ==
  {LoadTime + d : d \in {1, TypingDelay, TypingDelay + 1, 2 * TypingDelay + 1}}

\* time passes
ClockAdvance(t) ==
  /\ t > now
  /\ now' = t
  /\ UNCHANGED <<messages, inputValue, isSpeechEnabled, chatContext, pending,
                 speakTimers, ids, args, ret>>

\* the delay of the oldest typing timer has passed
TimerDue == pending # <<>> /\ now >= Head(pending).due

\* the text typed or dictated and the quick action of the session in time: the
\* ids do not depend on the texts
ClockTexts == {TextId(TextBudget)}

ClockQuickActionTexts == {TextId(TextQuickBudget)}

NextClock ==
  \/ \E t \in ClockTexts \cup {0} : OnChange(t)
  \/ \E t \in ClockQuickActionTexts : QuickAction(t)
  \/ \E t \in ClockTexts : TranscriptArrives(t)
  \/ HandleSendMessage
  \/ TimerDue /\ TypingDelayElapsed
  \/ SpeakDelayElapsed
  \/ HandleVoiceToggle
  \/ \E t \in Instants : ClockAdvance(t)

SpecClock == Init /\ [][NextClock]_vars

(***************************************************************************)
(* Function harness: extractNumberFromText on every text over a small      *)
(* alphabet                                                                *)
(***************************************************************************)
MaxTextLen == 4

ExtractAlphabet == {"$", ",", "7", "0", "a"}

ExtractTexts == UNION {[1..n -> ExtractAlphabet] : n \in 0..MaxTextLen}

InitExtract ==
  /\ InitSession
  /\ args \in {[text |-> t] : t \in ExtractTexts}
  /\ ret = NotCalled

CallExtract ==
  /\ ret = NotCalled
  /\ ret' = extractNumberFromText(args.text)
  /\ UNCHANGED <<args, sessionVars>>

NextExtract == CallExtract

SpecExtract == InitExtract /\ [][NextExtract]_vars

(***************************************************************************)
(* Function harness: the router on every text of Texts and on every        *)
(* context of a small set, for the call of the timer callback in a session *)
(* whose chatContext has not changed since the message was submitted       *)
(***************************************************************************)
HarnessIncomes == {Null, Num(30), Num(5000)}

HarnessAges == {Null, Num(0), Num(5), Num(30), Num(70)}

HarnessContexts ==
  {[userData |-> [EmptyUserData EXCEPT !.income = i, !.age = a],
    conversationState |-> IF i = Null THEN "greeting" ELSE "gathering_info",
    lastTopic |-> <<>>] : i \in HarnessIncomes, a \in HarnessAges}

InitRouter ==
  /\ InitSession
  /\ args \in {[text |-> t, chatContext |-> c] :
                 t \in 0..Len(Texts), c \in HarnessContexts}
  /\ ret = NotCalled

CallRouter ==
  /\ ret = NotCalled
  /\ ret' = [reply |-> getBeginnerFriendlyResponse(Text(args.text), args.chatContext),
             chatContext |-> ContextAfter(args.chatContext, Text(args.text),
                                          args.chatContext)]
  /\ UNCHANGED <<args, sessionVars>>

NextRouter == CallRouter

SpecRouter == InitRouter /\ [][NextRouter]_vars

(***************************************************************************)
(* Function harness: the earlier router on the same texts and contexts     *)
(***************************************************************************)
CallEarlierRouter ==
  /\ ret = NotCalled
  /\ ret' = [reply |-> getPersonalizedResponse(Text(args.text), args.chatContext),
             chatContext |-> EarlierContextAfter(args.chatContext, Text(args.text),
                                                 args.chatContext)]
  /\ UNCHANGED <<args, sessionVars>>

NextEarlierRouter == CallEarlierRouter

SpecEarlierRouter == InitRouter /\ [][NextEarlierRouter]_vars

(***************************************************************************)
(* Function harness: calculateDebtPayoff                                   *)
(***************************************************************************)
\* balances in cents
HarnessBalances == {0, 3000, 100000, 500000}

\* annual rates in hundredths
HarnessRates == {0, 12, 18, 24}

\* monthly payments in cents
HarnessPayments ==
  {45, 500, 1000, 1500, 2500, 5000, 7500, 10000, 20000, 50000, 101000, 101500}

InitDebt ==
  /\ InitSession
  /\ args \in {[balance |-> b, interestRate |-> r, monthlyPayment |-> p] :
                 b \in HarnessBalances, r \in HarnessRates, p \in HarnessPayments}
  /\ ret = NotCalled

CallDebtPayoff ==
  /\ ret = NotCalled
  /\ \E excess \in RoundingExcess(args.balance, args.interestRate,
                                  args.monthlyPayment) :
        ret' = calculateDebtPayoffCeil(args.balance, args.interestRate,
                                       args.monthlyPayment, excess)
  /\ UNCHANGED <<args, sessionVars>>

NextDebt == CallDebtPayoff

SpecDebt == InitDebt /\ [][NextDebt]_vars

(***************************************************************************)
(* Function harness: calculateBudget in doubles                            *)
(***************************************************************************)
MaxBudgetIncome == 100

\* incomes in whole dollars
HarnessBudgetIncomes == (0..MaxBudgetIncome) \cup {4000, 5000, 6000}

InitBudget ==
  /\ InitSession
  /\ args \in {[income |-> x] : x \in HarnessBudgetIncomes}
  /\ ret = NotCalled

CallBudget ==
  /\ ret = NotCalled
  /\ ret' = calculateBudgetDouble(args.income)
  /\ UNCHANGED <<args, sessionVars>>

NextBudget == CallBudget

SpecBudget == InitBudget /\ [][NextBudget]_vars

(***************************************************************************)
(* calculateRetirementPlan on its own                                      *)
(***************************************************************************)
HarnessCurrentAges == {60, 62, 64, 65}

HarnessRetirementAges == {DefaultRetirementAge, 67}

\* current savings in cents
HarnessRetirementSavings == {0, 1000000, 2500000}

\* monthly incomes in whole dollars
HarnessRetirementIncomes == {0, 5000}

\* contribution rates in hundredths
HarnessContributionRates == {0, DefaultContributionRate, 20}

InitRetirement ==
  /\ InitSession
  /\ args \in {[currentAge |-> a, retirementAge |-> r, currentSavings |-> s,
                monthlyIncome |-> x, contributionRate |-> c] :
                 a \in HarnessCurrentAges, r \in HarnessRetirementAges,
                 s \in HarnessRetirementSavings, x \in HarnessRetirementIncomes,
                 c \in HarnessContributionRates}
  /\ ret = NotCalled

\* the whole result of calculateRetirementPlan
RetirementPlanOf(a) ==
  LET plan == calculateRetirementPlan(a.currentAge, a.retirementAge, a.currentSavings,
                                      a.monthlyIncome, a.contributionRate)
      projection == retirementProjection(a.currentSavings, plan.monthlyContribution,
                                         plan.yearsToRetirement)
  IN [yearsToRetirement |-> plan.yearsToRetirement,
      monthlyContribution |-> plan.monthlyContribution,
      projectedRetirementFund |-> projection.projectedRetirementFund,
      monthlyIncomeAtRetirement |-> projection.monthlyIncomeAtRetirement]

CallRetirementPlan ==
  /\ ret = NotCalled
  /\ ret' = RetirementPlanOf(args)
  /\ UNCHANGED <<args, sessionVars>>

NextRetirement == CallRetirementPlan

SpecRetirement == InitRetirement /\ [][NextRetirement]_vars

(***************************************************************************)
(* Function harness: the debt branch of the router on messages that state  *)
(* a debt                                                                  *)
(***************************************************************************)
\* the largest debt of the messages, in whole dollars
MaxDebtAmount == 150

\* "debt " and the amount
DebtTextOf(digits) == <<"d", "e", "b", "t", " ">> \o digits

\* a debt of 310 digits
TextHugeDebt == DebtTextOf(<<"1">> \o [i \in 1..309 |-> "0"])

HarnessDebtTexts ==
  {DebtTextOf(DigitsOf(d)) : d \in 1..MaxDebtAmount} \cup {TextHugeDebt}

InitDebtBranch ==
  /\ InitSession
  /\ args \in {[text |-> t] : t \in HarnessDebtTexts}
  /\ ret = NotCalled

CallDebtBranch ==
  /\ ret = NotCalled
  /\ ret' = getBeginnerFriendlyResponse(args.text, InitialChatContext)
  /\ UNCHANGED <<args, sessionVars>>

NextDebtBranch == CallDebtBranch

SpecDebtBranch == InitDebtBranch /\ [][NextDebtBranch]_vars

(***************************************************************************)
(* calculateEmergencyFund on its own                                       *)
(***************************************************************************)
\* monthly expenses in cents
HarnessExpenses == {0, 2160, 10000, 384406}

\* current savings in cents
HarnessSavings == {0, 3000, 60000, 4525704}

\* monthly incomes in cents
HarnessMonthlyIncomes == {0, 2700, 27240, 100000}

HarnessTargetMonths == {3, DefaultTargetMonths, 12}

InitEmergency ==
  /\ InitSession
  /\ args \in {[monthlyExpenses |-> e, currentSavings |-> s, monthlyIncome |-> x,
                targetMonths |-> m] :
                 e \in HarnessExpenses, s \in HarnessSavings,
                 x \in HarnessMonthlyIncomes, m \in HarnessTargetMonths}
  /\ ret = NotCalled

CallEmergencyFund ==
  /\ ret = NotCalled
  /\ ret' = calculateEmergencyFundDouble(args.monthlyExpenses, args.currentSavings,
                                         args.monthlyIncome, args.targetMonths)
  /\ UNCHANGED <<args, sessionVars>>

NextEmergency == CallEmergencyFund

SpecEmergency == InitEmergency /\ [][NextEmergency]_vars

(***************************************************************************)
(* Properties of the router                                                *)
(***************************************************************************)
\* the call of the harness has returned
Called == ret # NotCalled

\* the router has answered the retirement scenario from the empty context
RetirementScenario ==
  /\ Called
  /\ args.text = TextId(TextRetirementPlan)
  /\ args.chatContext = InitialChatContext

\* C1: the reply to "I'm 30 years old and make $6000 per month, help me plan for
\* retirement", sent to a session with an empty context, is the computed
\* retirement projection and not the follow-up question.  The code answers with
\* the greeting, for the message contains "help"; and its retirement rule reads
\* the context of the render that took the message, which has neither fact.
C1_RetirementComputedInSameMessage ==
  RetirementScenario =>
     /\ ret.reply.branch = "retirement"
     /\ ~ret.reply.asks

\* C2: after the router has processed that message from the empty context, the
\* context holds age 30 and income 6000.  The code stores 30 as the income: the
\* first number of the message.
C2_AgeAndIncomeStored ==
  RetirementScenario =>
     /\ ret.chatContext.userData.age = Num(30)
     /\ ret.chatContext.userData.income = Num(6000)

\* C3: with an empty context, "Help me create a budget" gets the reply that asks
\* for the monthly income, and no calculator runs.  The code answers with the
\* greeting, for the message contains "help".
C3_BudgetAsksForIncome ==
  (/\ Called
   /\ args.text = TextId(TextCreateBudget)
   /\ args.chatContext = InitialChatContext)
  => ret.reply = Reply("budget", TRUE, <<>>)

\* the history of "I make $5000 per month", its reply, "help me budget" and its
\* reply, after the welcome message
IncomeThenBudget ==
  /\ Len(messages) = 5
  /\ messages[2].isUser /\ messages[2].text = TextId(TextIncome)
  /\ ~messages[3].isUser
  /\ messages[4].isUser /\ messages[4].text = TextId(TextHelpBudget)
  /\ ~messages[5].isUser

\* C4: when "I make $5000 per month" has been answered and "help me budget"
\* follows, the context holds income 5000 and the reply to the second message is
\* the computed budget with needs $2,500, wants $1,500 and savings $1,000.  The
\* code stores the income, and answers "help me budget" with the greeting.
C4_BudgetAfterIncome ==
  IncomeThenBudget =>
     /\ chatContext.userData.income = Num(5000)
     /\ messages[5].reply =
          Reply("budget", FALSE,
                <<<<"$", "5", ",", "0", "0", "0">>,
                  <<"$", "2", ",", "5", "0", "0">>,
                  <<"$", "1", ",", "5", "0", "0">>,
                  <<"$", "1", ",", "0", "0", "0">>>>)

\* the rules in the order of the claim, and the keywords of each
RuleOrder ==
  <<"greeting", "budget", "retirement", "emergency", "debt", "investment",
    "start">>

RuleKeywords ==
  <<GreetingKeywords, BudgetKeywords, RetirementKeywords,
    <<KwEmergency, KwSavings>>, DebtKeywords, InvestmentKeywords,
    StartKeywords>>

\* the rules that have a keyword in the lowercase text of the message
MatchingRules(userMessage) ==
  {i \in 1..Len(RuleOrder) :
     \E j \in 1..Len(RuleKeywords[i]) :
        Includes(ToLowerCase(userMessage), RuleKeywords[i][j])}

EarliestRule(userMessage) ==
  IF MatchingRules(userMessage) = {} THEN "fallback"
  ELSE RuleOrder[Least(MatchingRules(userMessage))]

\* C5: whatever the context holds, the reply is that of the earliest rule, in the
\* order greeting/help, budget, retirement, emergency fund, debt, investment,
\* start/begin/new/first, generic fallback, that has a keyword in the lowercase
\* text of the message.
C5_FirstMatchingRuleWins ==
  Called => ret.reply.branch = EarliestRule(Text(args.text))

\* a message with keywords of the debt, investment and start rules was answered
\* by the debt rule
C5_Witness ==
  /\ Called
  /\ args.text = TextId(TextStockLoan)
  /\ MatchingRules(Text(args.text)) = {5, 6, 7}
  /\ ret.reply.branch = "debt"

\* the replies of the router: a branch of the cascade, and figures that are
\* texts, none of them empty
IsReply(r) ==
  /\ r.branch \in {RuleOrder[i] : i \in 1..Len(RuleOrder)} \cup {"fallback"}
  /\ r.asks \in BOOLEAN
  /\ \A i \in 1..Len(r.figures) : Len(r.figures[i]) > 0

\* C6: for every message and every context the router returns a reply, and a
\* message that matches no keyword rule gets the generic fallback prompt.
C6_AlwaysAReply ==
  Called =>
     /\ IsReply(ret.reply)
     /\ MatchingRules(Text(args.text)) = {}
          => ret.reply = Reply("fallback", FALSE, <<>>)

\* a message without any keyword, and the empty message, got the fallback
C6_Witness ==
  /\ Called
  /\ args.text \in {0, TextId(TextFallback)}
  /\ MatchingRules(Text(args.text)) = {}
  /\ ret.reply.branch = "fallback"

\* the message is answered by the debt rule and states an amount
DebtMessageWithAmount ==
  /\ Called
  /\ EarliestRule(Text(args.text)) = "debt"
  /\ Truthy(extractNumberFromText(Text(args.text)))

\* C7: for a debt message that states an amount D, the figures of the reply are
\* those of calculateDebtPayoff with D, rate 0.18 and the payments 0.02 D and
\* 0.04 D, and the saving shown is the total interest of the minimum scenario
\* minus that of the aggressive scenario; for "I have $5000 in credit card debt"
\* they are $100 over 8 years with $4,400 of interest, $200 over 3 years with
\* $1,400 of interest, and a saving of $3,000.
C7_DebtScenarios ==
  DebtMessageWithAmount =>
     LET D == extractNumberFromText(Text(args.text)).v
         minimum == calculateDebtPayoff(D * 100, DefaultInterestRate, 2 * D)
         aggressive == calculateDebtPayoff(D * 100, DefaultInterestRate, 4 * D)
         figures == ret.reply.figures
     IN /\ ~ret.reply.asks
        /\ Len(figures) = 8
        /\ figures[2] = formatCurrency(Num(2 * D))
        /\ figures[3] = YearsText(minimum.monthsToPayoff)
        /\ figures[4] = formatCurrency(minimum.totalInterest)
        /\ figures[5] = formatCurrency(Num(4 * D))
        /\ figures[6] = YearsText(aggressive.monthsToPayoff)
        /\ figures[7] = formatCurrency(aggressive.totalInterest)
        /\ IsNum(minimum.totalInterest) /\ IsNum(aggressive.totalInterest)
        /\ figures[8] = formatCurrency(Num(minimum.totalInterest.v
                                           - aggressive.totalInterest.v))
        /\ args.text = TextId(TextDebt) =>
             figures = <<<<"$", "5", ",", "0", "0", "0">>,
                         <<"$", "1", "0", "0">>, <<"8">>,
                         <<"$", "4", ",", "4", "0", "0">>,
                         <<"$", "2", "0", "0">>, <<"3">>,
                         <<"$", "1", ",", "4", "0", "0">>,
                         <<"$", "3", ",", "0", "0", "0">>>>

\* "I have $5000 in credit card debt" was answered with the two scenarios
C7_Witness ==
  /\ DebtMessageWithAmount
  /\ args.text = TextId(TextDebt)
  /\ extractNumberFromText(Text(args.text)) = Num(5000)
  /\ Len(ret.reply.figures) = 8

\* the message is answered by the budget, retirement or emergency rule
GatedTopicCall ==
  /\ Called
  /\ EarliestRule(Text(args.text)) \in {"budget", "retirement", "emergency"}

\* the context holds the facts that the topic needs: the income, and for
\* retirement the age too
HoldsPrerequisites(topic, ctx) ==
  /\ ctx.userData.income # Null
  /\ topic = "retirement" => ctx.userData.age # Null

\* the text that a topic records in lastTopic
TopicName(topic) ==
  IF topic = "budget" THEN <<"b", "u", "d", "g", "e", "t">> ELSE KwRetirement

\* C14: when the topic is budget, retirement or emergency fund, the reply has
\* calculator figures exactly when the context read by the router holds the
\* facts the topic needs; otherwise the reply is the clarifying question without
\* any figure, and the context is changed by the extraction of the message
\* alone, but for lastTopic, which budget and retirement record.  The code
\* tests the facts for truthiness: with the age 0 stored (after "my age 0") and
\* an income, the retirement rule asks for the age and the income again.
C14_FiguresIffPrerequisites ==
  GatedTopicCall =>
     LET topic == EarliestRule(Text(args.text))
         extracted == AgeUpdate(IncomeUpdate(args.chatContext, Text(args.text)),
                                Text(args.text))
     IN IF HoldsPrerequisites(topic, args.chatContext)
        THEN /\ ~ret.reply.asks
             /\ ret.reply.figures # <<>>
             /\ ret.chatContext = extracted
        ELSE /\ ret.reply = Reply(topic, TRUE, <<>>)
             /\ ret.chatContext.userData = extracted.userData
             /\ ret.chatContext.conversationState = extracted.conversationState
             /\ ret.chatContext.lastTopic =
                  IF topic = "emergency" THEN extracted.lastTopic
                  ELSE TopicName(topic)

\* the message is answered by the investment rule
InvestmentCall ==
  /\ Called
  /\ EarliestRule(Text(args.text)) = "investment"

\* C15: for every context a message of the investment topic gets the allocation
\* reply, never a question, with stockAllocation = min(90, 100 - a) and
\* bondAllocation = 100 - stockAllocation, where a is the age stored in the
\* context, and 30 only when no age is stored.  The code takes 30 for the stored
\* age 0 as well (age || 30), and shows 70 and 30 where the claim has 90 and 10.
C15_AllocationFromStoredAge ==
  InvestmentCall =>
     LET stored == args.chatContext.userData.age
         a == IF stored # Null THEN stored.v ELSE 30
         stockAllocation == IF 100 - a < 90 THEN 100 - a ELSE 90
         bondAllocation == 100 - stockAllocation
     IN /\ stockAllocation + bondAllocation = 100
        /\ ret.reply =
             Reply("investment", FALSE,
                   <<NumberText(stockAllocation), NumberText(bondAllocation)>>)

(***************************************************************************)
(* Properties of extractNumberFromText                                     *)
(***************************************************************************)
HasDigit(text) == \E i \in 1..Len(text) : text[i] \in Digits

\* C8: extractNumberFromText returns null for every text without a digit (never
\* a number, never NaN).  The code returns NaN for a text whose first run of
\* [digit or comma] is made of commas only, such as "a,a".
C8_NoDigitGivesNull ==
  (Called /\ ~HasDigit(args.text)) => ret = Null

\* the first numeric token as the claim describes it: the digits, with comma
\* separators, that start at the first digit of the text
FirstNumericToken(text) ==
  LET i == Least({j \in 1..Len(text) : text[j] \in Digits})
  IN SubSeq(text, i, RunEnd(text, i, DigitOrComma))

\* C9: for every text with a numeric token, extractNumberFromText returns the
\* whole number that the first token spells once "$" and commas are removed.
\* The code returns NaN when a comma stands before the first number (",a7").
C9_FirstTokenValue ==
  (Called /\ HasDigit(args.text)) =>
     ret = Num(DecimalValue(Strip(FirstNumericToken(args.text), {","})))

(***************************************************************************)
(* Properties of calculateDebtPayoff                                       *)
(***************************************************************************)
InfiniteSentinel(r) ==
  /\ r.monthsToPayoff = Infinity
  /\ r.totalInterest = Infinity
  /\ r.totalPaid = Infinity

\* C10: for balance >= 0, rate >= 0 and payment > 0, calculateDebtPayoff returns
\* the infinite sentinel exactly when monthlyPayment <= balance * rate / 12, and
\* otherwise three finite numbers with totalPaid = monthsToPayoff *
\* monthlyPayment and totalInterest = totalPaid - balance.  With rate 0 the code
\* divides -0 by Math.log(1) = 0 and returns NaN three times; and where the
\* payment equals the interest of a month, the guard of the doubles can be
\* false: calculateDebtPayoff(30, 0.18, 0.45) returns 2468 months.
C10_SentinelOrFinite ==
  Called =>
     LET neverPaysOff == 1200 * args.monthlyPayment <= args.balance * args.interestRate
     IN /\ InfiniteSentinel(ret) <=> neverPaysOff
        /\ ~neverPaysOff =>
             /\ IsNum(ret.monthsToPayoff)
             /\ IsNum(ret.totalPaid)
             /\ IsNum(ret.totalInterest)
             /\ ret.totalPaid.v = ret.monthsToPayoff.v * args.monthlyPayment
             /\ ret.totalInterest.v = ret.totalPaid.v - args.balance

\* the payment exceeds the interest of a month: the payment amortizes the debt
Amortizes(balance, interestRate, monthlyPayment) ==
  1200 * monthlyPayment > balance * interestRate

\* the call was made with a positive rate and a payment that amortizes the debt
AmortizingCall ==
  /\ Called
  /\ args.interestRate > 0
  /\ Amortizes(args.balance, args.interestRate, args.monthlyPayment)

\* what calculateDebtPayoff returns for the balance and the rate of the call
\* and the larger payments of the grid
LargerPaymentResults ==
  UNION {{calculateDebtPayoffCeil(args.balance, args.interestRate, p, e) :
            e \in RoundingExcess(args.balance, args.interestRate, p)} :
         p \in {q \in HarnessPayments : q > args.monthlyPayment}}

\* C11: for a fixed balance and a fixed positive rate, a larger payment (among
\* the payments that amortize the debt) never yields a larger totalInterest.
\* In the code totalInterest is Math.ceil(quotient) * monthlyPayment - balance,
\* which grows with the payment as long as the number of months stays the same:
\* for 1000 at 0.18 the payment 100 gives 11 months and 100 of interest, the
\* payment 200 gives 6 months and 200 of interest.
C11_InterestDecreasesWithPayment ==
  AmortizingCall =>
     \A larger \in LargerPaymentResults :
        larger.totalInterest.v <= ret.totalInterest.v

\* The balance is zero or less after n payments.  After n payments the balance
\* is balance * (1 + r)^n - monthlyPayment * ((1 + r)^n - 1) / r with r the
\* monthly rate, which is zero or less exactly when
\* (1 + r)^n * (monthlyPayment - balance * r) >= monthlyPayment.
BalanceClearedAfter(n, balance, interestRate, monthlyPayment) ==
  BigGeq(BigMul(BigPow(BigFromNat(1200 + interestRate), n),
                BigFromNat(1200 * monthlyPayment - balance * interestRate)),
         BigMul(BigPow(BigFromNat(1200), n), BigFromNat(1200 * monthlyPayment)))

\* C12: for a fixed balance and a fixed positive rate, a larger payment (among
\* the payments that amortize the debt) never yields a larger monthsToPayoff,
\* and monthsToPayoff is the smallest whole number of payments after which the
\* amortized balance is zero or less.  The code returns one month more than
\* that when the last payment clears the balance exactly and the quotient of
\* the doubles comes out above the whole number: calculateDebtPayoff(1000,
\* 0.18, 1015) is 2 months, and 1000 * 1.015 - 1015 = 0 after one payment.
C12_MonthsDecreaseAndAreLeast ==
  AmortizingCall =>
     /\ \A larger \in LargerPaymentResults :
           larger.monthsToPayoff.v <= ret.monthsToPayoff.v
     /\ BalanceClearedAfter(ret.monthsToPayoff.v, args.balance,
                            args.interestRate, args.monthlyPayment)
     /\ \A n \in 0..(ret.monthsToPayoff.v - 1) :
           ~BalanceClearedAfter(n, args.balance, args.interestRate,
                                args.monthlyPayment)

(***************************************************************************)
(* Properties of calculateBudget                                           *)
(***************************************************************************)
\* needs + wants + savings as JavaScript adds them
BudgetSum(budget) ==
  DoublePlus(DoublePlus(budget.needs, budget.wants), budget.savings)

\* |a - b| <= t
BigWithin(a, b, t) == BigGeq(BigAdd(a, t), b) /\ BigGeq(BigAdd(b, t), a)

\* the returned percentages and totalIncome
BudgetShares ==
  /\ ret.totalIncome = DoubleFromNat(args.income)
  /\ ret.needsPercentage = 50
  /\ ret.wantsPercentage = 30
  /\ ret.savingsPercentage = 20

\* C13 as stated: for every income x >= 0, needs + wants + savings = x, with
\* totalIncome = x and the percentages 50, 30 and 20.  In the doubles of the
\* code the sum differs from x in the last bit for some x: for x = 31 it is
\* 30.999999999999996.
C13_Original ==
  Called =>
     /\ BudgetShares
     /\ BigEq(BigAdd(ret.needs, ret.needs), ret.totalIncome)
     /\ BudgetSum(ret) = ret.totalIncome

\* C13, amended: for every income x >= 0 (a whole number of dollars), needs is
\* 0.5 x, wants and savings are 0.3 x and 0.2 x to within x * 2^-53, needs +
\* wants + savings is x to within x * 2^-52, totalIncome is x and the
\* percentages are 50, 30 and 20.
C13_BudgetWithinTolerance ==
  Called =>
     LET x == BigFromNat(args.income)
         ten == <<10>>
     IN /\ BudgetShares
        /\ BigEq(BigAdd(ret.needs, ret.needs), ret.totalIncome)
        /\ BigWithin(BigMul(ten, ret.wants), BigMul(<<3>>, ret.totalIncome),
                     ShiftLeft(BigMul(ten, x), 57))
        /\ BigWithin(BigMul(ten, ret.savings), BigMul(<<2>>, ret.totalIncome),
                     ShiftLeft(BigMul(ten, x), 57))
        /\ BigWithin(BudgetSum(ret), ret.totalIncome, ShiftLeft(x, 58))

\* calculateBudget has returned amounts whose sum is not the income
C13_Witness ==
  /\ Called
  /\ args.income > 0
  /\ BudgetSum(ret) # ret.totalIncome
  /\ BigWithin(BudgetSum(ret), ret.totalIncome, ShiftLeft(BigFromNat(args.income), 58))

(***************************************************************************)
(* Properties of calculateEmergencyFund (SpecEmergency)                    *)
(***************************************************************************)
\* the double amount is the amount of c cents to within half a cent
IsCents(amount, c) ==
  BigWithin(BigMul(<<200>>, amount), BigMul(BigFromNat(2 * c), DoubleUnit),
            DoubleUnit)

\* C16: for non-negative arguments with monthlyIncome > 0, targetAmount is
\* monthlyExpenses * targetMonths; monthsToGoal is 0 exactly when currentSavings
\* >= targetAmount, and otherwise the smallest whole number n with
\* n * (0.10 * monthlyIncome) >= targetAmount - currentSavings; monthsToGoal is
\* never negative.  (Amounts in cents: n * monthlyIncome >= 10 * remaining.)
C16_MonthsToGoalIsLeast ==
  (Called /\ args.monthlyIncome > 0) =>
     LET targetAmount == args.monthlyExpenses * args.targetMonths
         remaining == targetAmount - args.currentSavings
     IN /\ IsCents(ret.targetAmount, targetAmount)
        /\ ret.monthsToGoal.k = "num"
        /\ ret.monthsToGoal.v >= 0
        /\ (ret.monthsToGoal.v = 0) <=> (args.currentSavings >= targetAmount)
        /\ remaining > 0 =>
             ret.monthsToGoal.v = CeilDiv(10 * remaining, args.monthlyIncome)

(***************************************************************************)
(* Properties of calculateRetirementPlan (SpecRetirement)                  *)
(***************************************************************************)
\* a <= b and a < b for fractions
RatLeq(a, b) == BigGeq(BigMul(b.num, a.den), BigMul(a.num, b.den))

RatLess(a, b) == ~RatLeq(b, a)

\* projectedRetirementFund for the arguments a
FundOf(a) == RetirementPlanOf(a).projectedRetirementFund

\* C17: for a positive number of years to retirement and non-negative savings
\* and income, projectedRetirementFund does not decrease when contributionRate,
\* currentSavings or yearsToRetirement is raised and the other arguments are
\* kept; it increases with currentSavings, with contributionRate when the
\* income is positive, and with the years when there are savings or
\* contributions.  monthlyIncomeAtRetirement is projectedRetirementFund *
\* 0.04 / 12.
C17_FundIncreases ==
  (Called /\ ret.yearsToRetirement > 0) =>
     LET fund == ret.projectedRetirementFund
     IN /\ \A c \in HarnessContributionRates :
             c > args.contributionRate =>
               LET more == FundOf([args EXCEPT !.contributionRate = c])
               IN /\ RatLeq(fund, more)
                  /\ args.monthlyIncome > 0 => RatLess(fund, more)
        /\ \A s \in HarnessRetirementSavings :
             s > args.currentSavings =>
               RatLess(fund, FundOf([args EXCEPT !.currentSavings = s]))
        /\ \A a \in HarnessCurrentAges, r \in HarnessRetirementAges :
             r - a > ret.yearsToRetirement =>
               LET more == FundOf([args EXCEPT !.currentAge = a, !.retirementAge = r])
               IN /\ RatLeq(fund, more)
                  /\ (args.currentSavings > 0 \/ ret.monthlyContribution > 0) =>
                       RatLess(fund, more)
        /\ BigEq(BigMul(BigMul(ret.monthlyIncomeAtRetirement.num, fund.den), BigFromNat(1200)),
                 BigMul(BigMul(fund.num, <<4>>), ret.monthlyIncomeAtRetirement.den))

\* calculateRetirementPlan has returned a fund above the savings, for savings,
\* contributions and years that can all be raised
C17_Witness ==
  /\ Called
  /\ ret.yearsToRetirement = 1
  /\ args.currentSavings = 1000000
  /\ args.monthlyIncome > 0
  /\ args.contributionRate = DefaultContributionRate
  /\ RatLess([num |-> BigFromNat(args.currentSavings), den |-> <<1>>],
             ret.projectedRetirementFund)

(***************************************************************************)
(* Properties of the session (Spec)                                        *)
(***************************************************************************)
\* the step is the callback of the typing timer of the oldest submission
ReplyStep == Len(pending') = Len(pending) - 1

\* the router stores an income for the message: lines 99-105
StoresIncome(userMessage) ==
  /\ Truthy(extractNumberFromText(userMessage))
  /\ IncludesAny(ToLowerCase(userMessage), IncomeKeywords)

\* the router stores an age for the message: lines 108-115
StoresAge(userMessage) == ExtractAge(userMessage) # Null

\* C18: conversationState is greeting or gathering_info, never
\* providing_advice; it starts as greeting, becomes gathering_info exactly in
\* the steps where the router stores an income, is left as it is by every other
\* step (those that store an age or record a topic among them), and never
\* returns to greeting.
C18_ConversationState ==
  /\ chatContext.conversationState = "greeting"
  /\ [][/\ chatContext'.conversationState \in {"greeting", "gathering_info"}
        /\ (ReplyStep /\ StoresIncome(Text(Head(pending).userInput)))
             => chatContext'.conversationState = "gathering_info"
        /\ ~(ReplyStep /\ StoresIncome(Text(Head(pending).userInput)))
             => chatContext'.conversationState = chatContext.conversationState
        /\ chatContext.conversationState = "gathering_info"
             => chatContext'.conversationState = "gathering_info"]_vars

\* an age was stored while the state was greeting, and an income afterwards
C18_Witness ==
  /\ chatContext.conversationState = "gathering_info"
  /\ chatContext.userData.income = Num(5000)
  /\ chatContext.userData.age = Num(25)
  /\ chatContext.lastTopic = KwRetirement
  /\ pending = <<>>

\* s is a prefix of t
IsPrefix(s, t) == Len(s) <= Len(t) /\ SubSeq(t, 1, Len(s)) = s

\* C19: the history only grows: in every step (a submission, the callback of a
\* typing timer, the speech toggle, the arrival of a transcript, a change of
\* the input box) the history before the step is a prefix of the history after
\* it.
C19_HistoryOnlyGrows == [][IsPrefix(messages, messages')]_vars

\* two submissions were answered, the speech was switched off and a transcript
\* has arrived in the input box
C19_Witness ==
  /\ Len(UserMessages(messages)) = 2
  /\ Len(BotMessages(messages)) = 3
  /\ ~isSpeechEnabled
  /\ inputValue = TextId(TextIncome)

\* the bot messages that answer submissions: all but the first message
BotReplies(history) == Tail(BotMessages(history))

\* the step is a submission: a typing timer is set
SubmitStep == Len(pending') = Len(pending) + 1

\* C20: every accepted submission appends one user message (with the text of
\* the input box) in the step of the submission, and the callback of its typing
\* timer appends one bot message with the router's reply to the text of the
\* oldest user message not yet answered, so that the replies come in the order
\* of the user messages; no other step appends a message; the bot replies are
\* never more than the user messages; and every user message is answered in
\* the end.
C20_OneReplyPerSubmission ==
  /\ [](Len(BotReplies(messages)) <= Len(UserMessages(messages)))
  /\ [][/\ SubmitStep =>
             messages' = Append(messages, [isUser |-> TRUE, text |-> inputValue,
                                           reply |-> NoReply])
        /\ ReplyStep =>
             LET answered == UserMessages(messages)[Len(BotReplies(messages)) + 1]
             IN messages' =
                  Append(messages,
                         [isUser |-> FALSE, text |-> 0,
                          reply |-> getBeginnerFriendlyResponse(
                                      Text(answered.text), Head(pending).chatContext)])
        /\ ~(SubmitStep \/ ReplyStep) => messages' = messages]_vars
  /\ \A n \in 1..MaxSubmits :
       (Len(UserMessages(messages)) >= n) ~> (Len(BotReplies(messages)) >= n)

\* two texts were submitted before the first timer ran, and both were answered,
\* with different replies
C20_Witness ==
  /\ Len(messages) = 5
  /\ messages[2].isUser /\ messages[3].isUser
  /\ messages[2].text # messages[3].text
  /\ ~messages[4].isUser /\ ~messages[5].isUser
  /\ messages[4].reply # messages[5].reply
  /\ pending = <<>>

\* the position, among the user messages, of the message that the i-th typing
\* timer answers
AnsweredBy(i) == Len(UserMessages(messages)) - Len(pending) + i

\* C21: the context that the router reads for a message holds every fact
\* (income, age) stated by a message submitted before it, also when the
\* earlier message has not been answered yet: for every typing timer that is
\* set, and every user message before the one it answers, an income stated
\* there is in the context of the timer, and so is an age.
C21_EarlierFactsAreRead ==
  \A i \in 1..Len(pending) :
    \A j \in 1..(AnsweredBy(i) - 1) :
      LET earlier == Text(UserMessages(messages)[j].text)
          read == pending[i].chatContext
      IN /\ StoresIncome(earlier) => Truthy(read.userData.income)
         /\ StoresAge(earlier) => read.userData.age # Null

(***************************************************************************)
(* Properties of the router's updates of the context (SpecRouter)          *)
(***************************************************************************)
\* userData after a message: the income and the age that lines 96-115 extract
\* from it, and the rest as before
UserDataWith(userData, userMessage) ==
  [userData EXCEPT
     !.income = IF StoresIncome(userMessage)
                THEN extractNumberFromText(userMessage) ELSE @,
     !.age = IF StoresAge(userMessage) THEN ExtractAge(userMessage) ELSE @]

\* C22: the income and the age are extracted from every message, whatever
\* branch answers it (greeting, start and fallback among them), and a topic
\* branch changes nothing in userData: after every call userData is the one
\* before the call with the extracted income and age, and nothing else.
C22_ExtractionOnEveryBranch ==
  Called =>
     ret.chatContext.userData =
       UserDataWith(args.chatContext.userData, Text(args.text))

\* the start branch has answered a message whose income is stored
C22_Witness ==
  /\ Called
  /\ ret.reply.branch = "start"
  /\ args.chatContext.userData.income = Null
  /\ ret.chatContext.userData.income = Num(3000)

\* the income is unset or a positive whole number
UnsetOrPositive(income) == income = Null \/ (income.k = "num" /\ income.v > 0)

\* C23: userData.income is unset or a positive integer in every reachable
\* state.  It is unset at first; and a call of the router on a context with
\* such an income leaves such an income, stores nothing when the first numeric
\* token of the message parses to 0 or to NaN (or when there is none), and
\* never clears an income.
C23_IncomeUnsetOrPositive ==
  Called =>
     LET before == args.chatContext.userData.income
         after == ret.chatContext.userData.income
         first == extractNumberFromText(Text(args.text))
     IN /\ UnsetOrPositive(before) => UnsetOrPositive(after)
        /\ first \in {Null, NaN, Num(0)} => after = before
        /\ before # Null => after # Null

\* the fields of userData that no message states
OtherFields ==
  {"expenses", "currentSavings", "retirementAge", "debt", "riskTolerance", "goals"}

OtherFieldsUnset(userData) == \A f \in OtherFields : userData[f] = Null

\* C24: no message sets a field of userData other than income and age.  The
\* other six fields are unset at first, and a call of the router on a context
\* where they are unset leaves them unset; so the emergency answer is computed
\* with expenses of 0.8 times the income and savings of 0, and the retirement
\* answer with the retirement age 65 and savings of 0.
C24_OnlyIncomeAndAge ==
  /\ OtherFieldsUnset(InitialChatContext.userData)
  /\ Called =>
       LET read == args.chatContext.userData
       IN /\ OtherFieldsUnset(read) => OtherFieldsUnset(ret.chatContext.userData)
          /\ (ret.reply.branch = "emergency" /\ ~ret.reply.asks) =>
               LET emergencyPlan ==
                     calculateEmergencyFund(read.income.v * 80, 0, read.income.v,
                                            DefaultTargetMonths)
               IN /\ ret.reply.figures[1] =
                       formatCurrency(Num(read.income.v * 80 * DefaultTargetMonths))
                  /\ ret.reply.figures[2] =
                       formatCurrency(Num(emergencyPlan.monthlySavingsNeeded))
          /\ (ret.reply.branch = "retirement" /\ ~ret.reply.asks) =>
               /\ ret.reply.figures[1] =
                    NumberText(DefaultRetirementAge - read.age.v)
               /\ ret.reply.figures[2] =
                    formatCurrency(Num(calculateRetirementPlan(
                      read.age.v, DefaultRetirementAge, 0, read.income.v,
                      DefaultContributionRate).monthlyContribution))

\* a message that states an age was answered with the retirement figures, and
\* the age is stored with the other fields unset
C24_Witness ==
  /\ Called
  /\ StoresAge(Text(args.text))
  /\ ret.reply.branch = "retirement" /\ ~ret.reply.asks
  /\ ret.chatContext.userData.age # Null
  /\ OtherFieldsUnset(ret.chatContext.userData)

\* C25: the messages of the history have pairwise distinct ids, whatever the
\* order and the instants of the submissions and of the delayed replies.
C25_DistinctIds ==
  /\ Len(ids) = Len(messages)
  /\ \A i, j \in 1..Len(ids) : i # j => ids[i] # ids[j]

\* C26: a bot reply is handed to the speech synthesis exactly if the speech
\* output is enabled in the state in which the reply is appended: the step of
\* the timer callback sets the timer of speak if isSpeechEnabled holds then and
\* sets none otherwise, whatever isSpeechEnabled was at the submission.
C26_SpokenIfEnabledAtReply ==
  [][ReplyStep =>
       IF isSpeechEnabled /\ textToSpeechSupported
       THEN speakTimers' = Append(speakTimers, messages'[Len(messages')].reply)
       ELSE speakTimers' = speakTimers]_vars

\* C27: for every positive debt amount that the debt branch extracts, neither
\* scenario is the one that never pays off: the months, the interest of both
\* scenarios and the saving are finite numbers, the saving is positive, and
\* the reply states these finite figures.
C27_DebtScenariosFinite ==
  (Called /\ ret.branch = "debt" /\ ~ret.asks) =>
     LET debtAmount == extractNumberFromText(args.text)
         scenarios == DebtScenarios(debtAmount)
         minPayoff == scenarios.minPayoff
         aggressivePayoff == scenarios.aggressivePayoff
         saving == JsMinus(minPayoff.totalInterest, aggressivePayoff.totalInterest)
     IN /\ IsNum(minPayoff.monthsToPayoff)
        /\ IsNum(aggressivePayoff.monthsToPayoff)
        /\ IsNum(minPayoff.totalInterest)
        /\ IsNum(aggressivePayoff.totalInterest)
        /\ IsNum(saving) /\ saving.v > 0
        /\ ret.figures[3] = NumberText((minPayoff.monthsToPayoff.v + 6) \div 12)
        /\ ret.figures[6] = NumberText((aggressivePayoff.monthsToPayoff.v + 6) \div 12)
        /\ ret.figures[8] = formatCurrency(Num(saving.v))

====
